---- MODULE Spec2Model ----
(***************************************************************************)
(* A model of sellout (src/sellout.py): the IndieAuth authorization-code   *)
(* and bearer-token lifecycle kept in the DynamoDB table "auth", and the   *)
(* micropub document requests against the GitHub contents API.             *)
(*                                                                         *)
(* Every `await` on a store is one atomic step of the model; what a        *)
(* handler computes between two awaits belongs to the step of the await    *)
(* that precedes it.  Requests run in the slots Procs and interleave       *)
(* freely, as coroutines of one server or as separate server instances do. *)
(***************************************************************************)
EXTENDS Integers, Sequences, FiniteSets, TLC

VARIABLES
    auth,   \* the table db_prefix + "auth": item key -> item
    now,    \* the wall clock: minutes where codes age, seconds where documents are stamped
    req,    \* the request each slot is handling and where it stands
    resp,     \* the response being sent, with the request it answers
    redeemed, \* history: code key -> redeem_auth_code calls that returned for it
    repo,     \* the GitHub branch: path -> raw text of the file
    dreq,     \* the micropub request each slot is handling and where it stands
    commits,  \* history: path -> commits the contents API made to it
    mf        \* the codec at work: a document, a property bag and what was made of them

vars == <<auth, now, req, resp, redeemed, repo, dreq, commits, mf>>

\* What no micropub request changes.
authVars == <<auth, req, resp, redeemed, mf>>

\* What no request to the authorization endpoints changes.
docVars == <<repo, dreq, commits, mf>>

(***************************************************************************)
(* Bounds of the model.                                                    *)
(***************************************************************************)
MaxCodes == 1     \* authorization codes POST /allow issues
MaxTokens == 2    \* bearer tokens POST /token mints
MaxCommits == 4   \* commits the contents API makes to one path

Procs == {"p1", "p2"}
Hosts == {"h1", "h2"}
ClientIds == {"c1", "c2"}
RedirectUris == {"r1", "r2"}
Verifiers == {"v1", "v2", "v-nonascii"}
\* A client may present any value it likes, also one nobody issued.
Presented == 1 .. (IF MaxCodes > MaxTokens THEN MaxCodes ELSE MaxTokens)

None == "None"

(***************************************************************************)
(* Program constants.                                                      *)
(***************************************************************************)
ExpiryMinutes == 5

\* The instants at which the clock is read: issue, the last minute a code
\* is good, and the first minute it is not.
TimePoints == {0, ExpiryMinutes, ExpiryMinutes + 1}

\* The seconds at which documents are stamped: that of Init and the next.
DocTimePoints == {0, 1}

ALL_SCOPES == <<"profile", "email", "create", "update", "delete", "undelete", "media">>

(***************************************************************************)
(* The credential store: get_item raises ItemNotFound for an absent key,   *)
(* put_item overwrites the whole item.                                     *)
(***************************************************************************)
ItemNotFound == [missing |-> TRUE]

db_key(prefix, value) == <<prefix, value>>

get_item(tbl, key) == IF key \in DOMAIN tbl THEN tbl[key] ELSE ItemNotFound

put_item(tbl, item) ==
    [k \in DOMAIN tbl \cup {item.token} |-> IF k = item.token THEN item ELSE tbl[k]]

\* dict.get(name, default)
dict_get(d, name, default) == IF name \in DOMAIN d THEN d[name] ELSE default

\* d with d[name] = value assigned
dict_set(d, name, value) ==
    [k \in DOMAIN d \cup {name} |-> IF k = name THEN value ELSE d[k]]

issued(tbl, prefix) == {k \in DOMAIN tbl : k[1] = prefix}

(***************************************************************************)
(* PKCE: sha256 of the verifier's ASCII bytes against the base64url        *)
(* decoding of the stored challenge.                                       *)
(***************************************************************************)
is_ascii(v) == v # "v-nonascii"

sha256(v) == CASE v = "v1" -> "d1" [] v = "v2" -> "d2" [] OTHER -> "d3"

\* urlsafe_b64decode(challenge + "==")
urlsafe_b64decode_padded(challenge) ==
    CASE challenge = "ch1" -> "d1" [] challenge = "ch2" -> "d2" [] OTHER -> "d0"

(***************************************************************************)
(* redeem_auth_code, from the item read to the decision.  "ok" means the   *)
(* code is about to be marked used.                                        *)
(***************************************************************************)
redeem_precheck(form) ==
    IF dict_get(form, "grant_type", None) # "authorization_code"
    THEN "unsupported_grant_type"
    ELSE IF ~("code" \in DOMAIN form) \/ ~("client_id" \in DOMAIN form)
            \/ ~("redirect_uri" \in DOMAIN form)
    THEN "invalid_request"
    ELSE "ok"

\* Mutants of redeem_rejects: the `used` test left out; the expiry test
\* off by one; the host test left out.
redeem_rejects_ignoring_used(data, form, host, t) ==
    \/ t - data.time > ExpiryMinutes
    \/ form.client_id # data.client_id
    \/ form.redirect_uri # data.redirect_uri
    \/ data.host # host

redeem_rejects_at_limit(data, form, host, t) ==
    \/ t - data.time >= ExpiryMinutes
    \/ form.client_id # data.client_id
    \/ form.redirect_uri # data.redirect_uri
    \/ dict_get(data, "used", FALSE)
    \/ data.host # host

redeem_rejects_ignoring_host(data, form, host, t) ==
    \/ t - data.time > ExpiryMinutes
    \/ form.client_id # data.client_id
    \/ form.redirect_uri # data.redirect_uri
    \/ dict_get(data, "used", FALSE)

\* The big `if` of lines 247-254: TRUE when the code is refused.
redeem_rejects(data, form, host, t) ==
    \/ t - data.time > ExpiryMinutes
    \/ form.client_id # data.client_id
    \/ form.redirect_uri # data.redirect_uri
    \/ dict_get(data, "used", FALSE)
    \/ data.host # host

\* Mutant of pkce_check: any verifier is taken for the right one.
pkce_check_any_verifier(data, form) ==
    IF dict_get(data, "code_challenge_method", None) = "S256"
    THEN IF ~("code_verifier" \in DOMAIN form) THEN "invalid_request"
         ELSE IF ~is_ascii(form.code_verifier) THEN "server_error"
         ELSE "ok"
    ELSE "ok"

\* Lines 255-263.  encode("ascii") raises UnicodeEncodeError on a verifier
\* that is not ASCII, which `except (ItemNotFound, KeyError)` lets through.
pkce_check(data, form) ==
    IF dict_get(data, "code_challenge_method", None) = "S256"
    THEN IF ~("code_verifier" \in DOMAIN form) THEN "invalid_request"
         ELSE IF ~is_ascii(form.code_verifier) THEN "server_error"
         ELSE IF sha256(form.code_verifier) # urlsafe_b64decode_padded(data.code_challenge)
         THEN "invalid_grant"
         ELSE "ok"
    ELSE "ok"

redeem_check(data, form, host, t) ==
    IF data = ItemNotFound THEN "invalid_grant"
    ELSE IF redeem_rejects(data, form, host, t) THEN "invalid_grant"
    ELSE pkce_check(data, form)

(***************************************************************************)
(* The requests.  A slot is idle, or holds a request between two awaits:   *)
(*   "redeem_put"  redeem_auth_code has read the code and is about to put  *)
(*                 it back with used = True (line 265)                     *)
(*   "token_put"   Token.post is about to put the new token (line 364)     *)
(*   "revoke_put"  Token.post is about to put the revoked token (line 346) *)
(* A request that ends frees its slot.  Where responses are observed       *)
(* (obs), the response stays in resp until it is delivered, and nothing    *)
(* else happens meanwhile: resp then always describes the step just taken, *)
(* against the store and the clock as that step left them.                 *)
(***************************************************************************)
NoData == [none |-> TRUE]

Idle == [pc |-> "idle", ep |-> None, host |-> None, at |-> 0, form |-> NoData, data |-> NoData]

NoResponse ==
    [ep |-> None, host |-> None, form |-> NoData, data |-> NoData, result |-> None, scopes |-> <<>>]

response(ep, host, form, data, result, scopes) ==
    [ep |-> ep, host |-> host, form |-> form, data |-> data, result |-> result, scopes |-> scopes]

send(obs, r) == resp' = IF obs THEN r ELSE NoResponse

keep(obs, x) == IF obs THEN x ELSE NoData

drop(f, name) == [k \in DOMAIN f \ {name} |-> f[k]]

\* The forms a client may post to redeem a code: well-formed ones, with or
\* without a code_verifier, and ones with a wrong grant_type or a parameter missing.
RedeemForms ==
    LET full == [grant_type : {"authorization_code"},
                 code : Presented,
                 client_id : ClientIds,
                 redirect_uri : RedirectUris,
                 code_verifier : Verifiers]
        one == CHOOSE f \in full : TRUE
    IN  full \cup {drop(f, "code_verifier") : f \in full}
             \cup {drop(one, name) : name \in {"grant_type", "code", "client_id", "redirect_uri"}}
             \cup {[one EXCEPT !.grant_type = "refresh_token"]}

\* The forms of the two clients the consent requests below name, each
\* presenting its own client_id and redirect_uri, with its verifier if it has one.
ClientForms ==
    {f \in RedeemForms :
        /\ {"grant_type", "code", "client_id", "redirect_uri"} \subseteq DOMAIN f
        /\ f.grant_type = "authorization_code"
        /\ \/ f.client_id = "c1" /\ f.redirect_uri = "r1" /\ "code_verifier" \notin DOMAIN f
           \/ f.client_id = "c2" /\ f.redirect_uri = "r2" /\ dict_get(f, "code_verifier", None) = "v1"}

\* The consent forms POST /allow receives, each with the host it is posted to.
ConsentRequests ==
    { [host |-> "h1", client_id |-> "c1", redirect_uri |-> "r1", state |-> "st",
       code_challenge |-> None, code_challenge_method |-> None, scopes |-> {"profile", "delete"}],
      [host |-> "h2", client_id |-> "c2", redirect_uri |-> "r2", state |-> "st",
       code_challenge |-> "ch1", code_challenge_method |-> "S256", scopes |-> {"create", "update"}] }

scope_list(boxes) == SelectSeq(ALL_SCOPES, LAMBDA s : s \in boxes)

\* token_urlsafe(16): a value nobody holds yet.
token_urlsafe(tbl, prefix) == Cardinality(issued(tbl, prefix)) + 1

(***************************************************************************)
(* Posts.  A Post is the pair (fm, content_text): fm is the TOML front     *)
(* matter, a dict from field names to values, content_text the body.  A    *)
(* text is the sequence of its pieces, NL standing for "\n".  A JSON list  *)
(* is [list |-> <<...>>], JSON null is Null; the items of a content list   *)
(* are [str |-> text] or [dict |-> d].  A datetime keeps its instant, its  *)
(* microseconds, whether it carries a UTC offset, and the offset in        *)
(* minutes.  A function that raises yields [error |-> what it raised].     *)
(***************************************************************************)
NL == "\n"

Null == [null |-> TRUE]

IsList(v) == "list" \in DOMAIN v

Raised(x) == "error" \in DOMAIN x

DataError == [error |-> "invalid_request"]

KeyError == [error |-> "KeyError"]

ValueError == [error |-> "ValueError"]

dict_pop(d, name) == [k \in DOMAIN d \ {name} |-> d[k]]

\* k.replace("-", "_")
underscored(k) ==
    CASE k = "in-reply-to" -> "in_reply_to"
      [] k = "like-of" -> "like_of"
      [] OTHER -> k

\* datetime.fromisoformat(s.replace('Z', '+00:00'))
fromisoformat(s) ==
    CASE s = "2020-01-01T10:00:00Z" ->
            [secs |-> 100, micro |-> 0, aware |-> TRUE, offset |-> 0]
      [] s = "2020-01-01T12:00:00+02:00" ->
            [secs |-> 100, micro |-> 0, aware |-> TRUE, offset |-> 120]
      [] s = "2020-01-01T10:00:00.500000Z" ->
            [secs |-> 100, micro |-> 500000, aware |-> TRUE, offset |-> 0]
      [] s = "2020-01-01T10:00:00" ->
            [secs |-> 100, micro |-> 0, aware |-> FALSE, offset |-> 0]
      [] s = "2020-01-01T10:00:00+00:00" ->
            [secs |-> 100, micro |-> 0, aware |-> TRUE, offset |-> 0]
      [] OTHER -> ValueError

\* dt.isoformat(timespec='seconds') of the datetimes fromisoformat yields:
\* the fields in dt's own offset, no fraction, the offset as +hh:mm.
isoformat(dt) ==
    IF ~dt.aware THEN "2020-01-01T10:00:00"
    ELSE IF dt.offset = 0 THEN "2020-01-01T10:00:00+00:00"
    ELSE "2020-01-01T12:00:00+02:00"

\* datetime.now(timezone.utc).replace(microsecond=0), the clock showing t
utc_now(t) == [secs |-> t, micro |-> 0, aware |-> TRUE, offset |-> 0]

\* v[0].get("text", v[0].get("value", v[0].get("markdown", v[0].get("html"))))
content_of_dict(d) ==
    IF "text" \in DOMAIN d THEN [str |-> d.text]
    ELSE IF "value" \in DOMAIN d THEN [str |-> d.value]
    ELSE IF "markdown" \in DOMAIN d THEN [str |-> d.markdown]
    ELSE IF "html" \in DOMAIN d THEN [str |-> d.html]
    ELSE Null

\* One turn of the loop of json2post_inner, for the property k with value v.
json2post_prop(post, k, v, add_mode) ==
    LET fm == post.fm
        with(name, value) == [post EXCEPT !.fm = dict_set(fm, name, value)]
    IN  IF v = Null THEN post
        ELSE IF Len(v.list) = 0 THEN post
        ELSE IF k = "name" THEN with("title", v.list[1])
        ELSE IF k = "summary" THEN with("description", v.list[1])
        ELSE IF k \in {"published", "updated"}
        THEN LET dt == fromisoformat(v.list[1])
             IN  IF Raised(dt) THEN dt
                 ELSE with(IF k = "published" THEN "date" ELSE "updated", dt)
        ELSE IF k = "category"
        THEN LET tx == dict_get(fm, "taxonomies", <<>>)
             IN  with("taxonomies",
                      dict_set(tx, "tag",
                               IF add_mode /\ "tag" \in DOMAIN tx
                               THEN tx.tag \o v.list ELSE v.list))
        ELSE IF k = "content"
        THEN LET text == IF "str" \in DOMAIN v.list[1] THEN v.list[1]
                         ELSE IF "dict" \in DOMAIN v.list[1]
                         THEN content_of_dict(v.list[1].dict)
                         ELSE [str |-> post.content_text]
             IN  IF text = Null THEN DataError
                 ELSE [post EXCEPT !.content_text = text.str]
        ELSE IF k = "url" THEN post
        ELSE LET ex == dict_get(fm, "extra", <<>>)
                 key == underscored(k)
             IN  with("extra",
                      dict_set(ex, key,
                               IF add_mode /\ key \in DOMAIN ex
                               THEN ex[key] \o v.list ELSE v.list))

\* props is the dict in its order: a sequence of <<key, value>>.
RECURSIVE json2post_inner(_, _, _)
json2post_inner(post, props, add_mode) ==
    IF Raised(post) \/ props = <<>> THEN post
    ELSE json2post_inner(json2post_prop(post, props[1][1], props[1][2], add_mode),
                         Tail(props), add_mode)

\* One turn of the loop of delete_props, for the name k.
delete_prop(post, k) ==
    LET fm == post.fm
    IN  IF k = "name" THEN [post EXCEPT !.fm = dict_pop(fm, "title")]
        ELSE IF k = "published" THEN post
        ELSE IF k = "updated" THEN [post EXCEPT !.fm = dict_pop(fm, "updated")]
        ELSE IF k = "category"
        THEN IF "taxonomies" \notin DOMAIN fm THEN post
             ELSE LET tx == dict_pop(fm.taxonomies, "tag")
                  IN  IF DOMAIN tx = {}
                      THEN [post EXCEPT !.fm = dict_pop(fm, "taxonomies")]
                      ELSE [post EXCEPT !.fm = dict_set(fm, "taxonomies", tx)]
        ELSE IF k = "content" THEN [post EXCEPT !.content_text = <<>>]
        ELSE IF "extra" \notin DOMAIN fm THEN post
        ELSE [post EXCEPT !.fm = dict_set(fm, "extra", dict_pop(fm.extra, underscored(k)))]

RECURSIVE delete_props(_, _)
delete_props(post, props) ==
    IF props = <<>> THEN post
    ELSE delete_props(delete_prop(post, props[1]), Tail(props))

\* Mutant of without: only the first of the listed values is taken out.
without_first(values, v) ==
    IF v = <<>> THEN values ELSE SelectSeq(values, LAMBDA t : t # v[1])

\* [t for t in values if not t in v]
without(values, v) == SelectSeq(values, LAMBDA t : \A i \in 1 .. Len(v) : v[i] # t)

\* One turn of the loop of delete_vals, for the property k with the values v.
\* Line 745 deletes the key "k", whatever the property is called.
delete_val(post, k, v) ==
    LET fm == post.fm
    IN  IF ~IsList(v) THEN DataError
        ELSE IF k \in {"name", "published", "updated", "content"} THEN post
        ELSE IF k = "category"
        THEN IF "taxonomies" \notin DOMAIN fm THEN post
             ELSE IF "tag" \notin DOMAIN fm.taxonomies THEN post
             ELSE LET tag == without(fm.taxonomies.tag, v.list)
                      tx == IF Len(tag) = 0 THEN dict_pop(fm.taxonomies, "tag")
                            ELSE dict_set(fm.taxonomies, "tag", tag)
                  IN  IF DOMAIN tx = {}
                      THEN [post EXCEPT !.fm = dict_pop(fm, "taxonomies")]
                      ELSE [post EXCEPT !.fm = dict_set(fm, "taxonomies", tx)]
        ELSE LET key == underscored(k)
             IN  IF "extra" \notin DOMAIN fm THEN post
                 ELSE IF key \notin DOMAIN fm.extra THEN post
                 ELSE LET rest == without(fm.extra[key], v.list)
                          ex == dict_set(fm.extra, key, rest)
                      IN  IF Len(rest) # 0
                          THEN [post EXCEPT !.fm = dict_set(fm, "extra", ex)]
                          ELSE IF "k" \in DOMAIN ex
                          THEN [post EXCEPT !.fm = dict_set(fm, "extra", dict_pop(ex, "k"))]
                          ELSE KeyError

RECURSIVE delete_vals(_, _)
delete_vals(post, props) ==
    IF Raised(post) \/ props = <<>> THEN post
    ELSE delete_vals(delete_val(post, props[1][1], props[1][2]), Tail(props))

\* micropub_update between get_post and put_post: replace, add, delete by
\* name, delete by value, then the stamp.  data.delete is [list |-> names]
\* or [dict |-> props].  A step passes on what an earlier one raised.
replace_step(post, data) ==
    IF "replace" \in DOMAIN data THEN json2post_inner(post, data.replace, FALSE) ELSE post

add_step(post, data) ==
    IF Raised(post) \/ "add" \notin DOMAIN data THEN post
    ELSE json2post_inner(post, data.add, TRUE)

delete_props_step(post, data) ==
    IF Raised(post) \/ "delete" \notin DOMAIN data THEN post
    ELSE IF IsList(data.delete) THEN delete_props(post, data.delete.list)
    ELSE post

delete_vals_step(post, data) ==
    IF Raised(post) \/ "delete" \notin DOMAIN data THEN post
    ELSE IF "dict" \in DOMAIN data.delete THEN delete_vals(post, data.delete.dict)
    ELSE post

\* Mutant of stamped: an updated field the edits left is kept.
stamped_if_absent(post, t) ==
    IF Raised(post) THEN post
    ELSE IF "updated" \in DOMAIN post.fm THEN post
    ELSE [post EXCEPT !.fm = dict_set(post.fm, "updated", utc_now(t))]

\* post[0]["updated"] = datetime.now(timezone.utc).replace(microsecond=0)
stamped(post, t) ==
    IF Raised(post) THEN post
    ELSE [post EXCEPT !.fm = dict_set(post.fm, "updated", utc_now(t))]

updated_post(post, data, t) ==
    stamped(delete_vals_step(delete_props_step(add_step(replace_step(post, data), data),
                                               data), data), t)

(***************************************************************************)
(* The raw text of a post and its version.  put_post fences the front      *)
(* matter with "+++" lines and starts the body on a line of its own;       *)
(* get_post splits at FRONTMATTER_RE, whose \s* takes the line end after   *)
(* the fence and every blank line that has another line end or the end of  *)
(* the text after it.  The version is the git blob hash of the raw bytes,  *)
(* taken here to be free of collisions.                                    *)
(***************************************************************************)
startswith_newline(text) == Len(text) > 0 /\ text[1] = NL

\* Lines 456-466.
raw_text(post) ==
    [fm |-> post.fm,
     body |-> IF startswith_newline(post.content_text)
              THEN post.content_text ELSE <<NL>> \o post.content_text]

RECURSIVE leading_newlines(_)
leading_newlines(text) ==
    IF startswith_newline(text) THEN 1 + leading_newlines(Tail(text)) ELSE 0

\* Lines 447 and 452.
split_post(raw) ==
    LET n == leading_newlines(raw.body)
    IN  [fm |-> raw.fm,
         content_text |-> IF n = Len(raw.body) THEN <<>>
                          ELSE IF n = 0 THEN <<NL>> \o raw.body
                          ELSE SubSeq(raw.body, n, Len(raw.body))]

\* Lines 448-451.
git_blob_sha(raw) == <<"blob", raw>>

NoSha == <<>>

\* Mutant of put_post_data: the version read is not presented.
put_post_data_without_sha(raw, post_sha) == [content |-> raw]

\* Lines 467-474: the body of the PUT.
put_post_data(raw, post_sha) ==
    IF post_sha # NoSha THEN [content |-> raw, sha |-> post_sha] ELSE [content |-> raw]

(***************************************************************************)
(* The GitHub contents API on the branch, one call one atomic commit.      *)
(***************************************************************************)
NotFound == [error |-> "NotFound"]

github_get(files, path) == IF path \in DOMAIN files THEN files[path] ELSE NotFound

\* PUT /repos/{owner}/{repo}/contents/{path}: without sha it creates and
\* fails on a path that exists; with sha it replaces the file whose blob
\* hash is sha and fails on any other.
github_put(files, path, data) ==
    IF path \notin DOMAIN files
    THEN IF "sha" \in DOMAIN data
         THEN [status |-> "VersionConflict", files |-> files]
         ELSE [status |-> "ok", files |-> dict_set(files, path, data.content)]
    ELSE IF "sha" \notin DOMAIN data
    THEN [status |-> "AlreadyExists", files |-> files]
    ELSE IF data.sha # git_blob_sha(files[path])
    THEN [status |-> "VersionConflict", files |-> files]
    ELSE [status |-> "ok", files |-> dict_set(files, path, data.content)]

\* DELETE /repos/{owner}/{repo}/contents/{path}
github_delete(files, path, data) ==
    IF path \notin DOMAIN files
    THEN [status |-> "NotFound", files |-> files]
    ELSE IF data.sha # git_blob_sha(files[path])
    THEN [status |-> "VersionConflict", files |-> files]
    ELSE [status |-> "ok", files |-> dict_pop(files, path)]

(***************************************************************************)
(* Micropub requests.                                                      *)
(***************************************************************************)
path_prefix == "content/"

\* parts.path.lstrip("/"), a path being the sequence of its segments:
\* "/notes/a" is <<"", "notes", "a">>.
RECURSIVE lstrip_slash(_)
lstrip_slash(s) == IF s # <<>> /\ s[1] = "" THEN lstrip_slash(Tail(s)) ELSE s

\* The path of url on this host, or DataError for a url of another domain.
url2path(host, url) ==
    IF url.authority # host /\ host # "127.0.0.1:8000" THEN DataError
    ELSE [prefix |-> path_prefix, name |-> lstrip_slash(url.path), ext |-> ".md"]

\* MfObj(**data): type is a list of at least one string, properties a
\* mapping to lists.
check_json(data) ==
    IF /\ "type" \in DOMAIN data /\ "properties" \in DOMAIN data
       /\ Len(data.type) >= 1
       /\ \A i \in 1 .. Len(data.properties) : IsList(data.properties[i][2])
    THEN data
    ELSE DataError

\* Lines 640-643.
json2post(obj) == json2post_inner([fm |-> <<>>, content_text |-> <<>>], obj.properties, FALSE)

\* slugify(title)
slugify(title) ==
    CASE title = "Hello World" -> "hello-world"
      [] title = "T" -> "t"
      [] title = "!" -> ""
      [] OTHER -> title

\* Mutant of strftime: the fields of dt in UTC.
strftime_utc(dt) ==
    CASE dt.secs = 0 -> "2020-01-01-00-00-00"
      [] dt.secs = 1 -> "2020-01-01-00-00-01"
      [] OTHER -> "2020-01-01-10-00-00"

\* dt.strftime("%Y-%m-%d-%H-%M-%S"): the fields of dt in its own offset.
strftime(dt) ==
    LET local == dt.secs + 60 * dt.offset
    IN  CASE local = 0 -> "2020-01-01-00-00-00"
          [] local = 1 -> "2020-01-01-00-00-01"
          [] local = 100 -> "2020-01-01-10-00-00"
          [] OTHER -> "2020-01-01-12-00-00"

\* len(content_text.strip()) == 0
is_blank(text) == \A i \in 1 .. Len(text) : text[i] \in {NL, " "}

\* `if not slug`
no_slug(slug) == slug \in {None, ""}

\* fm["date"] for a post that has none
dated(fm, t) == IF "date" \in DOMAIN fm THEN fm ELSE dict_set(fm, "date", utc_now(t))

\* fm["extra"]["client_id"] of a request authenticated by a bearer token;
\* bearer_data is its token item, NoData for any other request.
with_client_id(fm, bearer_data) ==
    IF bearer_data # NoData /\ "client_id" \in DOMAIN bearer_data
    THEN dict_set(fm, "extra",
                  dict_set(dict_get(fm, "extra", <<>>), "client_id", <<bearer_data.client_id>>))
    ELSE fm

\* Mutant of category_of: a photo makes photos whatever the body is.
category_of_any_photo(fm, extra, content_text) ==
    IF "title" \in DOMAIN fm THEN "articles"
    ELSE IF "in_reply_to" \in DOMAIN extra THEN "replies"
    ELSE IF "like_of" \in DOMAIN extra THEN "likes"
    ELSE IF "photo" \in DOMAIN extra THEN "photos"
    ELSE "notes"

category_of(fm, extra, content_text) ==
    IF "title" \in DOMAIN fm THEN "articles"
    ELSE IF "in_reply_to" \in DOMAIN extra THEN "replies"
    ELSE IF "like_of" \in DOMAIN extra THEN "likes"
    ELSE IF "photo" \in DOMAIN extra /\ is_blank(content_text) THEN "photos"
    ELSE "notes"

\* The slug after the title was looked at.
named_slug(fm, given) ==
    IF "title" \in DOMAIN fm /\ no_slug(given) THEN slugify(fm.title) ELSE given

\* The path and the post for the slug so far: a post without one is named
\* by its date, and that name is stored in it.
placed(fm, content_text, category, named) ==
    IF no_slug(named)
    THEN [path |-> [prefix |-> path_prefix, name |-> <<category, strftime(fm.date)>>,
                    ext |-> ".md"],
          post |-> [fm |-> dict_set(fm, "slug", strftime(fm.date)),
                    content_text |-> content_text]]
    ELSE [path |-> [prefix |-> path_prefix, name |-> <<category, named>>, ext |-> ".md"],
          post |-> [fm |-> fm, content_text |-> content_text]]

create_fm(fm, content_text, given) ==
    placed(fm, content_text, category_of(fm, dict_get(fm, "extra", <<>>), content_text),
           named_slug(fm, given))

create_post(post, given, bearer_data, t) ==
    IF Raised(post) THEN post
    ELSE create_fm(with_client_id(dated(post.fm, t), bearer_data), post.content_text, given)

\* json2post(check_json(data))
checked_post(obj) == IF Raised(obj) THEN obj ELSE json2post(obj)

\* micropub_create up to its put_post (lines 660-682): the path and the
\* post, or what was raised.
created_post(data, bearer_data, t) ==
    create_post(checked_post(check_json(data)), dict_get(data, "mp-slug", None),
                bearer_data, t)

\* Mutant of dashed: the key comes back as it is stored.
dashed_as_stored(k) == k

\* k.replace("_", "-")
dashed(k) ==
    CASE k = "in_reply_to" -> "in-reply-to"
      [] k = "like_of" -> "like-of"
      [] k = "client_id" -> "client-id"
      [] OTHER -> k

\* Lines 567-568: the extra keys, as a dict from property name to values.
extra_props(extra) ==
    [k \in {dashed(e) : e \in DOMAIN extra} |->
        [list |-> extra[CHOOSE e \in DOMAIN extra : dashed(e) = k]]]

\* props[name] = [fm[field]], for a field the front matter has
prop_of_field(props, fm, field, name) ==
    IF field \in DOMAIN fm THEN dict_set(props, name, [list |-> <<fm[field]>>]) ELSE props

\* props[name] = [fm[field].isoformat(timespec='seconds')]; the front matter
\* of a post that went through tomlkit or json2post holds datetimes.
prop_of_date(props, fm, field, name) ==
    IF field \in DOMAIN fm
    THEN dict_set(props, name, [list |-> <<isoformat(fm[field])>>])
    ELSE props

prop_of_tags(props, fm) ==
    IF "taxonomies" \in DOMAIN fm /\ "tag" \in DOMAIN fm.taxonomies
    THEN dict_set(props, "category", [list |-> fm.taxonomies.tag])
    ELSE props

prop_of_content(props, content_text) ==
    IF ~is_blank(content_text)
    THEN dict_set(props, "content", [list |-> <<[dict |-> [markdown |-> content_text]]>>])
    ELSE props

\* Lines 564-585.  The properties are a dict from name to [list |-> values].
post2json(post) ==
    [type |-> <<"h-entry">>,
     properties |->
        prop_of_content(
            prop_of_tags(
                prop_of_date(
                    prop_of_date(
                        prop_of_field(
                            prop_of_field(extra_props(dict_get(post.fm, "extra", <<>>)),
                                          post.fm, "title", "name"),
                            post.fm, "description", "summary"),
                        post.fm, "date", "published"),
                    post.fm, "updated", "updated"),
                post.fm),
            post.content_text)]

\* The JSON body of the create request that made the first post.
FirstBody ==
    [type |-> <<"h-entry">>,
     properties |-> << <<"category", [list |-> <<"x">>]>>,
                       <<"content", [list |-> <<[str |-> <<"hello">>]>>]>> >>]
        @@ ("mp-slug" :> "a")

\* The post micropub_create left at /notes/a when the clock showed 0.
FirstPost == created_post(FirstBody, NoData, 0).post

\* What the requests are authenticated with: the session cookie, and a
\* bearer token that was granted create alone.
Credentials ==
    { [scopes |-> <<"auth", "via_cookie">> \o ALL_SCOPES, bearer_data |-> NoData],
      [scopes |-> <<"auth", "via_bearer", "create">>,
       bearer_data |-> [token |-> <<"B", 0>>, client_id |-> "c1",
                        scopes |-> <<"create">>, host |-> "h1"]] }

\* Mutant of has_required_scope: being authenticated is enough.
has_required_scope_auth_only(scopes, wanted) ==
    \E i \in 1 .. Len(scopes) : scopes[i] = "auth"

has_required_scope(scopes, wanted) ==
    \A w \in wanted : \E i \in 1 .. Len(scopes) : scopes[i] = w

Urls == { [authority |-> "h1", path |-> <<"", "notes", "a">>],
          [authority |-> "h1", path |-> <<"", "notes", "b">>],
          [authority |-> "h2", path |-> <<"", "notes", "a">>] }

\* The JSON bodies of the update requests: a tag added, a tag deleted by
\* value, nothing asked for, a delete whose values are not a list, and one
\* without url.
UpdateBodies ==
    LET edits == { [add |-> << <<"category", [list |-> <<"y">>]>> >>],
                   [delete |-> [dict |-> << <<"category", [list |-> <<"y">>]>> >>]],
                   [replace |-> <<>>],
                   [delete |-> [dict |-> << <<"category", Null>> >>]] }
    IN  {dict_set(dict_set(e, "url", u), "action", "update") : e \in edits, u \in Urls}
            \cup {[action |-> "update", replace |-> <<>>]}

\* The JSON bodies of the delete requests, and one of an action there is not.
DeleteBodies ==
    {[action |-> "delete", url |-> u] : u \in Urls}
        \cup {[action |-> "delete"], [action |-> "undelete", url |-> CHOOSE u \in Urls : TRUE]}

\* The bodies of the create requests: a JSON note with a slug of its own,
\* one without type, and a form-encoded note with the same slug.
CreateBodies ==
    { [type |-> <<"h-entry">>,
       properties |-> << <<"content", [list |-> <<[str |-> <<"hi">>]>>]>> >>]
          @@ ("mp-slug" :> "b"),
      [properties |-> <<>>],
      [form |-> << <<"h", "entry">>, <<"content", [str |-> <<"hi">>]>>,
                   <<"category[]", "x">>, <<"category[]", "y">>, <<"mp-slug", "b">> >>] }

\* A slot no micropub request is in.
DIdle ==
    [pc |-> "idle", action |-> None, cred |-> NoData, request |-> NoData, path |-> NoData,
     post |-> NoData, sha |-> NoSha, seen |-> 0, calls |-> <<>>, result |-> None]

\* The server as it starts: an empty table and the first post on the branch.
Started ==
    /\ auth = <<>>
    /\ now = 0
    /\ req = [p \in Procs |-> Idle]
    /\ resp = NoResponse
    /\ redeemed = <<>>
    /\ repo = [path \in {created_post(FirstBody, NoData, 0).path} |-> raw_text(FirstPost)]
    /\ dreq = [p \in Procs |-> DIdle]
    /\ commits = [path \in DOMAIN repo |-> 1]

Init == Started /\ mf = NoData

Quiet == resp = NoResponse

Tick(T) ==
    /\ Quiet
    /\ \E t \in T : t > now /\ now' = t
    /\ UNCHANGED <<auth, req, resp, redeemed>>
    /\ UNCHANGED docVars

code_item(code, t, host, form) ==
    [token |-> db_key("C", code),
     time |-> t,
     client_id |-> form.client_id,
     redirect_uri |-> form.redirect_uri,
     state |-> form.state,
     code_challenge |-> form.code_challenge,
     code_challenge_method |-> form.code_challenge_method,
     scopes |-> scope_list(form.scopes),
     host |-> host]

\* POST /allow of a session-authenticated, same-origin request.
allow(host, form, obs) ==
    /\ Quiet
    /\ Cardinality(issued(auth, "C")) < MaxCodes
    /\ LET data == code_item(token_urlsafe(auth, "C"), now, host, form)
       IN  /\ auth' = put_item(auth, data)
           /\ redeemed' = dict_set(redeemed, data.token, 0)
           /\ send(obs, response("allow", host, form, data, "303", <<>>))
    /\ UNCHANGED <<now, req>>
    /\ UNCHANGED docVars

\* Mutant of used_item: the item is written back as it was read.
used_item_unmarked(data) == data

\* data["used"] = True
used_item(data) == dict_set(data, "used", TRUE)

\* Mutant of redeem_get: a code that is refused is marked used all the same.
redeem_get_burning(p, ep, host, form, obs) ==
    /\ Quiet
    /\ req[p].pc = "idle"
    /\ LET pre == redeem_precheck(form)
           data == IF pre = "ok" THEN get_item(auth, db_key("C", form.code)) ELSE NoData
           res == IF pre = "ok" THEN redeem_check(data, form, host, now) ELSE pre
       IN  IF res = "ok"
           THEN /\ req' = [req EXCEPT ![p] =
                        [pc |-> "redeem_put", ep |-> ep, host |-> host, at |-> now,
                         form |-> keep(obs, form),
                         data |-> used_item(data)]]
                /\ UNCHANGED <<resp, auth>>
           ELSE /\ send(obs, response(ep, host, form, data, res, <<>>))
                /\ auth' = IF pre = "ok" /\ data # ItemNotFound
                           THEN put_item(auth, used_item(data)) ELSE auth
                /\ UNCHANGED req
    /\ UNCHANGED <<now, redeemed>>
    /\ UNCHANGED docVars

\* redeem_auth_code up to its put_item, for POST /token and POST /authorize.
redeem_get(p, ep, host, form, obs) ==
    /\ Quiet
    /\ req[p].pc = "idle"
    /\ LET pre == redeem_precheck(form)
           data == IF pre = "ok" THEN get_item(auth, db_key("C", form.code)) ELSE NoData
           res == IF pre = "ok" THEN redeem_check(data, form, host, now) ELSE pre
       IN  IF res = "ok"
           THEN /\ req' = [req EXCEPT ![p] =
                        [pc |-> "redeem_put", ep |-> ep, host |-> host, at |-> now,
                         form |-> keep(obs, form),
                         data |-> used_item(data)]]
                /\ UNCHANGED resp
           ELSE /\ send(obs, response(ep, host, form, data, res, <<>>))
                /\ UNCHANGED req
    /\ UNCHANGED <<auth, now, redeemed>>
    /\ UNCHANGED docVars

\* await tbl.put_item(data); return data.  POST /authorize then answers
\* with the profile, POST /token goes on to mint the token.
redeem_put(p, obs) ==
    /\ Quiet
    /\ req[p].pc = "redeem_put"
    /\ auth' = put_item(auth, req[p].data)
    /\ redeemed' = [redeemed EXCEPT ![req[p].data.token] = @ + 1]
    /\ IF req[p].ep = "token"
       THEN /\ req' = [req EXCEPT ![p].pc = "token_put"]
            /\ UNCHANGED resp
       ELSE /\ req' = [req EXCEPT ![p] = Idle]
            /\ send(obs, response(req[p].ep, req[p].host, req[p].form, req[p].data, "ok", <<>>))
    /\ UNCHANGED now
    /\ UNCHANGED docVars

\* Mutant of bearer_item: the token is granted every scope there is.
bearer_item_all_scopes(bearer, t, code_data, host) ==
    [token |-> db_key("B", bearer),
     time |-> t,
     code_used |-> code_data.token,
     client_id |-> code_data.client_id,
     scopes |-> ALL_SCOPES,
     host |-> host]

\* Lines 354-362: the token takes host, client_id and scopes from the code.
bearer_item(bearer, t, code_data, host) ==
    [token |-> db_key("B", bearer),
     time |-> t,
     code_used |-> code_data.token,
     client_id |-> code_data.client_id,
     scopes |-> code_data.scopes,
     host |-> host]

\* Token.post after redeem_auth_code returned: mint and store the token.
Token_post_put(p, obs) ==
    /\ Quiet
    /\ req[p].pc = "token_put"
    /\ Cardinality(issued(auth, "B")) < MaxTokens
    /\ LET data == bearer_item(token_urlsafe(auth, "B"), now, req[p].data, req[p].host)
       IN  /\ auth' = put_item(auth, data)
           /\ send(obs, response("token", req[p].host, req[p].form, data, "ok", data.scopes))
    /\ req' = [req EXCEPT ![p] = Idle]
    /\ UNCHANGED <<now, redeemed>>
    /\ UNCHANGED docVars

\* Mutant of revoked_item: the scopes go with the revocation.
revoked_item_without_scopes(data) ==
    dict_set(dict_set(data, "revoked", TRUE), "scopes", <<>>)

\* Mutant of revoked_item: the flag is flipped instead of set.
revoked_item_flipped(data) == dict_set(data, "revoked", ~dict_get(data, "revoked", FALSE))

\* data["revoked"] = True
revoked_item(data) == dict_set(data, "revoked", TRUE)

\* Token.post with action=revoke, up to its put_item.
revoke_get(p, host, token, obs) ==
    /\ Quiet
    /\ req[p].pc = "idle"
    /\ LET data == get_item(auth, db_key("B", token))
           form == [action |-> "revoke", token |-> token]
       IN  IF data # ItemNotFound /\ data.host = host
           THEN /\ req' = [req EXCEPT ![p] =
                        [pc |-> "revoke_put", ep |-> "revoke", host |-> host, at |-> now,
                         form |-> keep(obs, form), data |-> revoked_item(data)]]
                /\ UNCHANGED resp
           ELSE /\ send(obs, response("revoke", host, form, data, "ok", <<>>))
                /\ UNCHANGED req
    /\ UNCHANGED <<auth, now, redeemed>>
    /\ UNCHANGED docVars

revoke_put(p, obs) ==
    /\ Quiet
    /\ req[p].pc = "revoke_put"
    /\ auth' = put_item(auth, req[p].data)
    /\ send(obs, response("revoke", req[p].host, req[p].form, req[p].data, "ok", <<>>))
    /\ req' = [req EXCEPT ![p] = Idle]
    /\ UNCHANGED <<now, redeemed>>
    /\ UNCHANGED docVars

\* Mutant of authenticate_bearer: the host of the request is not compared.
authenticate_bearer_any_host(tbl, host, token) ==
    LET data == get_item(tbl, db_key("B", token))
    IN  IF data = ItemNotFound THEN [status |-> "401", scopes |-> <<>>]
        ELSE IF dict_get(data, "revoked", FALSE)
        THEN [status |-> "401", scopes |-> <<>>]
        ELSE [status |-> "ok", scopes |-> <<"auth", "via_bearer">> \o data.scopes]

\* Lines 150-163: an absent item, a revoked one and one of another host
\* all raise 401; otherwise the stored scopes follow the two markers.
authenticate_bearer(tbl, host, token) ==
    LET data == get_item(tbl, db_key("B", token))
    IN  IF data = ItemNotFound THEN [status |-> "401", scopes |-> <<>>]
        ELSE IF dict_get(data, "revoked", FALSE) \/ data.host # host
        THEN [status |-> "401", scopes |-> <<>>]
        ELSE [status |-> "ok", scopes |-> <<"auth", "via_bearer">> \o data.scopes]

\* A request carrying Authorization: Bearer <token>.
bearer_request(host, token, obs) ==
    /\ Quiet
    /\ LET a == authenticate_bearer(auth, host, token)
       IN  send(obs, response("bearer", host, [token |-> token],
                              get_item(auth, db_key("B", token)), a.status, a.scopes))
    /\ UNCHANGED <<auth, now, req, redeemed>>
    /\ UNCHANGED docVars

\* The response goes out.
deliver ==
    /\ ~Quiet
    /\ resp' = NoResponse
    /\ UNCHANGED <<auth, now, req, redeemed>>
    /\ UNCHANGED docVars

\* uri_reference(u).normalize(): the scheme and the authority of the URLs
\* the clients use.
uri_reference(u) ==
    CASE u \in {"c1", "r1"} -> [scheme |-> "https", authority |-> "app1.example"]
      [] u \in {"c2", "r2"} -> [scheme |-> "https", authority |-> "app2.example"]
      [] OTHER -> [scheme |-> None, authority |-> None]

\* The test GET /authorize makes of its client_id and redirect_uri before
\* it shows the consent page.
same_origin(client_id, redirect_uri) ==
    /\ uri_reference(client_id).scheme # None
    /\ uri_reference(client_id).authority # None
    /\ uri_reference(redirect_uri).scheme # None
    /\ uri_reference(redirect_uri).authority # None
    /\ uri_reference(client_id).scheme = uri_reference(redirect_uri).scheme
    /\ uri_reference(client_id).authority = uri_reference(redirect_uri).authority

(***************************************************************************)
(* POST /allow with the credentials of its request.  The authentication   *)
(* middleware runs first; the handler, wrapped by                          *)
(* requires("via_cookie", redirect="login"), runs after it.                *)
(***************************************************************************)
NoHeader == NoData

\* The consent forms a browser may post: those of the consent page and one
\* whose redirect_uri is of another origin than its client_id.
AllowForms ==
    ConsentRequests \cup
        { [host |-> "h1", client_id |-> "c1", redirect_uri |-> "r2", state |-> "st",
           code_challenge |-> None, code_challenge_method |-> None, scopes |-> {"create"}] }

\* The Authorization headers of a request: none, or Bearer <token>.
AuthorizationHeaders == {NoHeader} \cup {[scheme |-> "Bearer", token |-> t] : t \in Presented}

SecFetchSites == {"same-origin", "cross-site"}

\* TokenAndSessionBackend.authenticate
authenticate(tbl, host, session_au, authorization) ==
    IF session_au
    THEN [status |-> "ok", scopes |-> <<"auth", "via_cookie">> \o ALL_SCOPES]
    ELSE IF authorization # NoHeader
    THEN authenticate_bearer(tbl, host, authorization.token)
    ELSE [status |-> "ok", scopes |-> <<>>]

\* Mutant of requires: any authenticated request passes.
requires_any_credential(scopes, scopes_list, redirect) ==
    IF has_required_scope(scopes, {"auth"}) THEN "ok" ELSE "login"

\* The wrapper of requires(scopes_list, redirect): what it does with a
\* request holding scopes.
requires(scopes, scopes_list, redirect) ==
    IF redirect = None /\ ~has_required_scope(scopes, {"auth"}) THEN "unauthorized"
    ELSE IF ~has_required_scope(scopes, scopes_list)
    THEN IF redirect # None THEN redirect ELSE "insufficient_scope"
    ELSE "ok"

\* The middleware authenticates a POST /allow.
Allow_authenticate(p, host, session_au, authorization, site, form) ==
    /\ Quiet
    /\ req[p].pc = "idle"
    /\ LET a == authenticate(auth, host, session_au, authorization)
       IN  req' = [req EXCEPT ![p] =
                IF a.status # "ok"
                THEN [pc |-> "responded", ep |-> "allow", host |-> host, at |-> now,
                      form |-> form, data |-> [scopes |-> a.scopes, site |-> site],
                      result |-> "unauthorized"]
                ELSE [pc |-> "allow", ep |-> "allow", host |-> host, at |-> now,
                      form |-> form, data |-> [scopes |-> a.scopes, site |-> site]]]
    /\ UNCHANGED <<auth, now, resp, redeemed>>
    /\ UNCHANGED docVars

\* The wrapped handler.
allow_post(p) ==
    /\ Quiet
    /\ req[p].pc = "allow"
    /\ LET r == req[p]
           gate == requires(r.data.scopes, {"via_cookie"}, "login")
           data == code_item(token_urlsafe(auth, "C"), now, r.host, r.form)
           result == IF gate # "ok" THEN gate
                     ELSE IF r.data.site # "same-origin" THEN "autherr"
                     ELSE "303"
       IN  /\ IF result = "303"
              THEN /\ Cardinality(issued(auth, "C")) < MaxCodes
                   /\ auth' = put_item(auth, data)
                   /\ redeemed' = dict_set(redeemed, data.token, 0)
              ELSE UNCHANGED <<auth, redeemed>>
           /\ req' = [req EXCEPT ![p] =
                        [pc |-> "responded", ep |-> "allow", host |-> r.host, at |-> r.at,
                         form |-> r.form, data |-> r.data, result |-> result]]
    /\ UNCHANGED <<now, resp>>
    /\ UNCHANGED docVars

\* The response to POST /allow goes out.
allow_respond(p) ==
    /\ req[p].pc = "responded"
    /\ req' = [req EXCEPT ![p] = Idle]
    /\ UNCHANGED <<auth, now, resp, redeemed>>
    /\ UNCHANGED docVars

\* A POST /token is abandoned between the put_item of redeem_auth_code
\* (line 265) and the put_item of Token.post (line 364): the process dies,
\* or the second write raises.
abandon(p, obs) ==
    /\ Quiet
    /\ req[p].pc = "token_put"
    /\ req' = [req EXCEPT ![p] = Idle]
    /\ send(obs, response("token", req[p].host, req[p].form, req[p].data, "abandoned", <<>>))
    /\ UNCHANGED <<auth, now, redeemed>>
    /\ UNCHANGED docVars

(***************************************************************************)
(* The server, handling requests in the slots P, with redemption forms     *)
(* drawn from F and the clock read at the instants T.                      *)
(***************************************************************************)
Server(P, F, T, obs) ==
    \/ Tick(T)
    \/ \E c \in ConsentRequests : allow(c.host, c, obs)
    \/ \E p \in P, ep \in {"token", "authorize"}, h \in Hosts, f \in F :
            redeem_get(p, ep, h, f, obs)
    \/ \E p \in P : redeem_put(p, obs)
    \/ \E p \in P : Token_post_put(p, obs)
    \/ \E p \in P, h \in Hosts, t \in Presented : revoke_get(p, h, t, obs)
    \/ \E p \in P : revoke_put(p, obs)
    \/ \E h \in Hosts, t \in Presented : bearer_request(h, t, obs)

\* Requests interleave at every await.
Next == Server(Procs, ClientForms, {ExpiryMinutes + 1}, FALSE)

Spec == Init /\ [][Next]_vars

\* Requests are handled one after another, any form may arrive, and every
\* response is observed.
NextSeq == Server({"p1"}, RedeemForms, TimePoints, TRUE) \/ deliver

SpecSeq == Init /\ [][NextSeq]_vars

(***************************************************************************)
(* Micropub.post.  A slot is idle, or holds a request between two awaits:  *)
(*   "authenticated"  the bearer token was looked up and the handler is    *)
(*                    about to run                                         *)
(*   "create_put"  micropub_create is about to put_post (line 684)         *)
(*   "update_put"  micropub_update is about to put_post (line 770)         *)
(*   "delete_put"  micropub_delete is about to delete_post (line 789)      *)
(* or holds the outcome of a request that ended, until the response is     *)
(* out.  cred is what the request was authenticated with, calls the calls  *)
(* it made to the contents API so far, seen the number of commits the path *)
(* had when it was read.                                                   *)
(***************************************************************************)
ended(p, action, cred, calls, result) ==
    dreq' = [dreq EXCEPT ![p] =
                [DIdle EXCEPT !.pc = "done", !.action = action, !.cred = cred,
                              !.calls = calls, !.result = result]]

commits_of(path) == dict_get(commits, path, 0)

\* The slot of a request that is about to write.
writing(pc, action, cred, path, post, sha, calls) ==
    [DIdle EXCEPT !.pc = pc, !.action = action, !.cred = cred, !.path = path,
                  !.post = post, !.sha = sha, !.seen = commits_of(path), !.calls = calls]

\* Mutant of micropub_create: the put carries the hash of what is stored.
micropub_create_overwriting(p, cred, data) ==
    LET made == created_post(data, cred.bearer_data, now)
    IN  IF Raised(made) THEN ended(p, "create", cred, <<>>, made.error)
        ELSE dreq' = [dreq EXCEPT ![p] =
                        writing("create_put", "create", cred, made.path, made.post,
                                IF made.path \in DOMAIN repo
                                THEN git_blob_sha(repo[made.path]) ELSE NoSha, <<>>)]

\* micropub_create up to its put_post.
micropub_create(p, cred, data) ==
    LET made == created_post(data, cred.bearer_data, now)
    IN  IF Raised(made) THEN ended(p, "create", cred, <<>>, made.error)
        ELSE dreq' = [dreq EXCEPT ![p] =
                        writing("create_put", "create", cred, made.path, made.post, NoSha, <<>>)]

\* micropub_update from the post on: put_post is next unless the edit raised.
update_with(p, cred, path, sha, post) ==
    IF Raised(post) THEN ended(p, "update", cred, <<"GET">>, post.error)
    ELSE dreq' = [dreq EXCEPT ![p] =
                    writing("update_put", "update", cred, path, post, sha, <<"GET">>)]

\* micropub_update from what get_post returned.
update_of(p, cred, data, path, raw) ==
    IF Raised(raw) THEN ended(p, "update", cred, <<"GET">>, raw.error)
    ELSE update_with(p, cred, path, git_blob_sha(raw),
                     updated_post(split_post(raw), data, now))

update_at(p, cred, data, path) ==
    IF Raised(path) THEN ended(p, "update", cred, <<>>, path.error)
    ELSE update_of(p, cred, data, path, github_get(repo, path))

\* micropub_update up to its put_post.
micropub_update(p, cred, host, data) ==
    update_at(p, cred, data,
              IF "url" \in DOMAIN data THEN url2path(host, data.url) ELSE DataError)

\* micropub_delete from what get_post returned.
delete_of(p, cred, path, raw) ==
    IF Raised(raw) THEN ended(p, "delete", cred, <<"GET">>, raw.error)
    ELSE dreq' = [dreq EXCEPT ![p] =
                    writing("delete_put", "delete", cred, path, NoData,
                            git_blob_sha(raw), <<"GET">>)]

delete_at(p, cred, path) ==
    IF Raised(path) THEN ended(p, "delete", cred, <<>>, path.error)
    ELSE delete_of(p, cred, path, github_get(repo, path))

\* micropub_delete up to its delete_post.
micropub_delete(p, cred, host, data) ==
    delete_at(p, cred,
              IF "url" \in DOMAIN data THEN url2path(host, data.url) ELSE DataError)

\* "h-" + v
h_type(v) == CASE v = "entry" -> "h-entry" [] OTHER -> "h-unknown"

\* k.startswith("mp-")
startswith_mp(k) == k \in {"mp-slug", "mp-syndicate-to"}

\* k.endswith("[]")
endswith_brackets(k) == k \in {"category[]", "photo[]"}

\* k[:-2]
without_brackets(k) == CASE k = "category[]" -> "category" [] k = "photo[]" -> "photo" [] OTHER -> k

props_has(props, k) == \E i \in 1 .. Len(props) : props[i][1] = k

\* props[k] = [v]
props_put(props, k, v) ==
    IF props_has(props, k)
    THEN [i \in 1 .. Len(props) |-> IF props[i][1] = k THEN <<k, [list |-> <<v>>]>> ELSE props[i]]
    ELSE Append(props, <<k, [list |-> <<v>>]>>)

\* props[k].append(v), or props[k] = [v] for a new k
props_append(props, k, v) ==
    IF props_has(props, k)
    THEN [i \in 1 .. Len(props) |->
            IF props[i][1] = k THEN <<k, [list |-> Append(props[i][2].list, v)]>> ELSE props[i]]
    ELSE Append(props, <<k, [list |-> <<v>>]>>)

\* Lines 852-871: the create request a form stands for.  items is
\* form.multi_items(), acc the data so far with the props in .properties.
RECURSIVE form_data(_, _)
form_data(acc, items) ==
    IF items = <<>> THEN acc
    ELSE LET k == items[1][1]
             v == items[1][2]
         IN  form_data(
                IF k = "h" THEN dict_set(acc, "type", <<h_type(v)>>)
                ELSE IF k = "access_token" THEN acc
                ELSE IF startswith_mp(k) THEN dict_set(acc, k, v)
                ELSE IF endswith_brackets(k)
                THEN [acc EXCEPT !.properties = props_append(@, without_brackets(k), v)]
                ELSE [acc EXCEPT !.properties = props_put(@, k, v)],
                Tail(items))

\* Micropub.post from the credentials on (lines 822-872): the scope named
\* by the action, then the handler.  A form-encoded body is [form |-> items].
Micropub_handler(p, cred, host, data) ==
    IF "form" \in DOMAIN data
    THEN IF ~has_required_scope(cred.scopes, {"create"})
         THEN ended(p, "create", cred, <<>>, "insufficient_scope")
         ELSE micropub_create(p, cred, form_data([properties |-> <<>>], data.form))
    ELSE LET action == dict_get(data, "action", "create")
         IN  IF ~has_required_scope(cred.scopes, {action})
             THEN ended(p, action, cred, <<>>, "insufficient_scope")
             ELSE IF action = "create" THEN micropub_create(p, cred, data)
             ELSE IF action = "update" THEN micropub_update(p, cred, host, data)
             ELSE IF action = "delete" THEN micropub_delete(p, cred, host, data)
             ELSE ended(p, action, cred, <<>>, "invalid_request")

\* A request whose credentials need no lookup: the session cookie, or none.
Micropub_post(p, cred, host, data) ==
    /\ dreq[p].pc = "idle"
    /\ Micropub_handler(p, cred, host, data)
    /\ UNCHANGED <<repo, commits, now>>
    /\ UNCHANGED authVars

\* A request with Authorization: Bearer <token>, up to the get_item of
\* authenticate_bearer (lines 166-184); a token refused ends it with 401.
Micropub_authenticate(p, host, token, data) ==
    /\ dreq[p].pc = "idle"
    /\ LET a == authenticate_bearer(auth, host, token)
           cred == [scopes |-> a.scopes, bearer_data |-> get_item(auth, db_key("B", token))]
       IN  IF a.status # "ok"
           THEN ended(p, dict_get(data, "action", "create"),
                      [scopes |-> <<>>, bearer_data |-> NoData], <<>>, "unauthorized")
           ELSE dreq' = [dreq EXCEPT ![p] =
                            [DIdle EXCEPT !.pc = "authenticated", !.cred = cred,
                                          !.request = [host |-> host, data |-> data]]]
    /\ UNCHANGED <<repo, commits, now>>
    /\ UNCHANGED authVars

\* The handler of a request that was authenticated by its bearer token.
Micropub_post_bearer(p) ==
    /\ dreq[p].pc = "authenticated"
    /\ Micropub_handler(p, dreq[p].cred, dreq[p].request.host, dreq[p].request.data)
    /\ UNCHANGED <<repo, commits, now>>
    /\ UNCHANGED authVars

\* Mutant of committed: a rejected call is made again.
committed_retrying(p, r, call, success) ==
    /\ repo' = r.files
    /\ commits' = IF r.status = "ok"
                  THEN dict_set(commits, dreq[p].path, commits_of(dreq[p].path) + 1)
                  ELSE commits
    /\ dreq' = [dreq EXCEPT ![p] =
                    IF r.status = "VersionConflict" /\ Len(dreq[p].calls) < 3
                    THEN [dreq[p] EXCEPT !.calls = Append(dreq[p].calls, call)]
                    ELSE [DIdle EXCEPT !.pc = "done", !.action = dreq[p].action,
                                       !.cred = dreq[p].cred, !.path = dreq[p].path,
                                       !.calls = Append(dreq[p].calls, call),
                                       !.result = IF r.status = "ok" THEN success ELSE r.status]]

\* The outcome of a contents API call, for the slot and for the branch.
committed(p, r, call, success) ==
    /\ repo' = r.files
    /\ commits' = IF r.status = "ok"
                  THEN dict_set(commits, dreq[p].path, commits_of(dreq[p].path) + 1)
                  ELSE commits
    /\ dreq' = [dreq EXCEPT ![p] =
                    [DIdle EXCEPT !.pc = "done", !.action = dreq[p].action,
                                  !.cred = dreq[p].cred, !.path = dreq[p].path,
                                  !.calls = Append(dreq[p].calls, call),
                                  !.result = IF r.status = "ok" THEN success ELSE r.status]]

\* await put_post(h, path, (fm, content_text))
create_put(p) ==
    /\ dreq[p].pc = "create_put"
    /\ commits_of(dreq[p].path) < MaxCommits
    /\ committed(p, github_put(repo, dreq[p].path,
                               put_post_data(raw_text(dreq[p].post), dreq[p].sha)),
                 "PUT", "201")
    /\ UNCHANGED now
    /\ UNCHANGED authVars

\* await put_post(h, path, post, post_sha=sha)
update_put(p) ==
    /\ dreq[p].pc = "update_put"
    /\ commits_of(dreq[p].path) < MaxCommits
    /\ committed(p, github_put(repo, dreq[p].path,
                               put_post_data(raw_text(dreq[p].post), dreq[p].sha)),
                 "PUT", "204")
    /\ UNCHANGED now
    /\ UNCHANGED authVars

\* Mutant of delete_put: the call carries the hash of what is stored now.
delete_put_latest(p) ==
    /\ dreq[p].pc = "delete_put"
    /\ commits_of(dreq[p].path) < MaxCommits
    /\ committed(p, github_delete(repo, dreq[p].path,
                                  [sha |-> IF dreq[p].path \in DOMAIN repo
                                           THEN git_blob_sha(repo[dreq[p].path])
                                           ELSE dreq[p].sha]),
                 "DELETE", "204")
    /\ UNCHANGED now
    /\ UNCHANGED authVars

\* await delete_post(h, path, sha)
delete_put(p) ==
    /\ dreq[p].pc = "delete_put"
    /\ commits_of(dreq[p].path) < MaxCommits
    /\ committed(p, github_delete(repo, dreq[p].path, [sha |-> dreq[p].sha]),
                 "DELETE", "204")
    /\ UNCHANGED now
    /\ UNCHANGED authVars

\* The response is out and the slot is free.
respond(p) ==
    /\ dreq[p].pc = "done"
    /\ dreq' = [dreq EXCEPT ![p] = DIdle]
    /\ UNCHANGED <<repo, commits, now>>
    /\ UNCHANGED authVars

\* The credentials of the owner's session.
SessionCredentials == {c \in Credentials : has_required_scope(c.scopes, {"via_cookie"})}

\* Update and delete requests of the host h1 in the slots P, made with the
\* owner's session.
DocServer(P) ==
    \/ Tick(DocTimePoints)
    \/ \E p \in P, c \in SessionCredentials, d \in UpdateBodies \cup DeleteBodies :
            Micropub_post(p, c, "h1", d)
    \/ \E p \in P : update_put(p)
    \/ \E p \in P : delete_put(p)
    \/ \E p \in P : respond(p)

NextDoc == DocServer(Procs)

SpecDoc == Init /\ [][NextDoc]_vars

\* The bodies of the requests a client holding a token sends to host h: a
\* note created, a tag added to /notes/a, /notes/a deleted.
PubBodies(h) ==
    LET url == [authority |-> h, path |-> <<"", "notes", "a">>]
    IN  { [action |-> "create", type |-> <<"h-entry">>,
           properties |-> << <<"content", [list |-> <<[str |-> <<"hi">>]>>]>> >>]
              @@ ("mp-slug" :> "b"),
          [action |-> "update", url |-> url,
           add |-> << <<"category", [list |-> <<"y">>]>> >>],
          [action |-> "delete", url |-> url] }

\* Codes are issued and redeemed, tokens revoked, and the tokens are
\* presented with micropub requests; one request of each kind at a time.
NextPub ==
    \/ Server({"p1"}, ClientForms, {ExpiryMinutes + 1}, FALSE)
    \/ \E h \in Hosts, t \in Presented :
            \E d \in PubBodies(h) : Micropub_authenticate("p1", h, t, d)
    \/ Micropub_post_bearer("p1")
    \/ create_put("p1")
    \/ update_put("p1")
    \/ delete_put("p1")
    \/ respond("p1")

SpecPub == Init /\ [][NextPub]_vars

\* Codes are asked for with a session, with a bearer token and with
\* nothing, one request at a time; they are redeemed, and tokens are revoked.
NextAllow ==
    \/ Tick({ExpiryMinutes + 1})
    \/ \E p \in {"p1"}, c \in AllowForms, s \in BOOLEAN :
            \E a \in AuthorizationHeaders, site \in SecFetchSites :
                Allow_authenticate(p, c.host, s, a, site, c)
    \/ \E p \in {"p1"} : allow_post(p)
    \/ \E p \in {"p1"} : allow_respond(p)
    \/ \E p \in {"p1"}, h \in Hosts, f \in ClientForms : redeem_get(p, "token", h, f, FALSE)
    \/ \E p \in {"p1"} : redeem_put(p, FALSE)
    \/ \E p \in {"p1"} : Token_post_put(p, FALSE)
    \/ \E p \in {"p1"}, h \in Hosts, t \in Presented : revoke_get(p, h, t, FALSE)
    \/ \E p \in {"p1"} : revoke_put(p, FALSE)

SpecAllow == Init /\ [][NextAllow]_vars

\* Create requests of the host h1 in the slots P: the bodies of CreateBodies
\* and the body the first post was made from.
NextCreate ==
    \/ Tick(DocTimePoints)
    \/ \E p \in Procs, c \in Credentials, d \in CreateBodies \cup {FirstBody} :
            Micropub_post(p, c, "h1", d)
    \/ \E p \in Procs : create_put(p)
    \/ \E p \in Procs : respond(p)

SpecCreate == Init /\ [][NextCreate]_vars

\* POST /token requests, one at a time, any of which may be abandoned
\* before its token is stored.
NextCrash ==
    \/ Tick(TimePoints)
    \/ \E c \in ConsentRequests : allow(c.host, c, TRUE)
    \/ \E h \in Hosts, f \in ClientForms : redeem_get("p1", "token", h, f, TRUE)
    \/ redeem_put("p1", TRUE)
    \/ Token_post_put("p1", TRUE)
    \/ abandon("p1", TRUE)
    \/ deliver

SpecCrash == Init /\ [][NextCrash]_vars

(***************************************************************************)
(* The codec by itself: json2post_inner applied to a document and a        *)
(* property bag, post2json applied to what comes out.                      *)
(***************************************************************************)
EmptyPost == [fm |-> <<>>, content_text |-> <<>>]

\* A document with every kind of field.
OldPost ==
    [fm |-> [title |-> "Old", description |-> "old summary",
             date |-> fromisoformat("2020-01-01T10:00:00"),
             taxonomies |-> [tag |-> <<"x">>],
             extra |-> [photo |-> <<"p">>]],
     content_text |-> <<"old">>]

Docs == {EmptyPost, OldPost}

IsoStrings ==
    {"2020-01-01T10:00:00Z", "2020-01-01T12:00:00+02:00", "2020-01-01T10:00:00.500000Z",
     "2020-01-01T10:00:00", "2020-01-01T10:00:00+00:00"}

\* The content values: a string, objects, and a blank string.
Contents ==
    {[str |-> <<"hello">>], [dict |-> [markdown |-> <<"hello">>]],
     [dict |-> [html |-> <<"<p>hello</p>">>]], [str |-> <<" ">>]}

\* Extra keys, and the key the decoder skips.
ExtraKeys == {"in-reply-to", "photo", "like_of", "url"}

one(v) == [list |-> <<v>>]

\* The bags holding exactly one value for each recognized key and for one
\* more key.
FullBags ==
    {<< <<"name", one("T")>>, <<"summary", one("S")>>, <<"published", one(p)>>,
        <<"updated", one(u)>>, <<"category", one("x")>>, <<"content", one(c)>>,
        <<e, one("u")>> >> :
        p \in IsoStrings, u \in {"2020-01-01T10:00:00Z", "2020-01-01T12:00:00+02:00"},
        c \in Contents, e \in ExtraKeys}

\* Bags of one property: lists of one and of two values, the empty list and
\* null; and a bag of two list-valued properties.
OneBags ==
    {<< <<k, v>> >> :
        k \in {"category", "photo", "in-reply-to"},
        v \in {one("y"), [list |-> <<"y", "z">>], [list |-> <<>>], Null}}
    \cup {<< <<k, v>> >> :
            k \in {"name", "summary"}, v \in {one("N"), [list |-> <<>>], Null}}
    \cup {<< <<k, v>> >> :
            k \in {"published", "updated"},
            v \in {one("2020-01-01T10:00:00Z"), [list |-> <<>>], Null}}
    \cup {<< <<"category", one("y")>>, <<"photo", one("q")>> >>}

InitCodec ==
    /\ Started
    /\ mf \in [pc : {"bag"}, doc : Docs, bag : FullBags \cup OneBags, add_mode : BOOLEAN,
               post : {NoData}, out : {NoData}]

\* The decoder called in replace mode whatever the mode asked for.
decode_replacing ==
    /\ mf # NoData
    /\ mf.pc = "bag"
    /\ mf' = [mf EXCEPT !.pc = "post", !.post = json2post_inner(mf.doc, mf.bag, FALSE)]
    /\ UNCHANGED <<auth, now, req, resp, redeemed, repo, dreq, commits>>

\* json2post_inner(doc, bag, add_mode); with the empty document and
\* add_mode False this is json2post.
decode ==
    /\ mf # NoData
    /\ mf.pc = "bag"
    /\ mf' = [mf EXCEPT !.pc = "post", !.post = json2post_inner(mf.doc, mf.bag, mf.add_mode)]
    /\ UNCHANGED <<auth, now, req, resp, redeemed, repo, dreq, commits>>

\* post2json(post)
encode ==
    /\ mf # NoData
    /\ mf.pc = "post"
    /\ ~Raised(mf.post)
    /\ mf' = [mf EXCEPT !.pc = "json", !.out = post2json(mf.post)]
    /\ UNCHANGED <<auth, now, req, resp, redeemed, repo, dreq, commits>>

NextCodec == decode \/ encode

SpecCodec == InitCodec /\ [][NextCodec]_vars

(***************************************************************************)
(* The two deletions by themselves: delete_props applied to a document and *)
(* a list of names, delete_vals applied to a document and a dict of value  *)
(* lists.                                                                  *)
(***************************************************************************)
\* A document with two tags and another taxonomy, two extra keys and an
\* updated field.
TaggedPost ==
    [fm |-> [title |-> "Old",
             date |-> fromisoformat("2020-01-01T10:00:00Z"),
             updated |-> fromisoformat("2020-01-01T10:00:00Z"),
             taxonomies |-> [tag |-> <<"x", "y">>, authors |-> <<"a">>],
             extra |-> [photo |-> <<"p", "q">>, in_reply_to |-> <<"u">>]],
     content_text |-> <<"old">>]

\* A document that has an extra key called k.
KPost ==
    [fm |-> [date |-> fromisoformat("2020-01-01T10:00:00Z"),
             extra |-> [photo |-> <<"p">>, k |-> <<"v">>]],
     content_text |-> <<"old">>]

DeleteDocs == {EmptyPost, OldPost, TaggedPost, KPost}

PropertyNames ==
    {"name", "published", "updated", "category", "content", "photo", "in-reply-to", "like-of"}

\* The lists of names of a delete: each name alone, and some pairs.
DeleteNames ==
    {<<n>> : n \in PropertyNames}
        \cup {<<"published", "content">>, <<"photo", "in-reply-to">>, <<"category", "name">>}

\* The dicts of a delete by value: one property with a list of values, or
\* with null in its place.
DeleteValues ==
    {<< <<k, v>> >> :
        k \in PropertyNames \ {"like-of"},
        v \in {[list |-> vs] : vs \in {<<>>, <<"x">>, <<"y">>, <<"x", "y">>, <<"y", "x">>,
                                       <<"p">>, <<"p", "q">>, <<"u">>}}
              \cup {Null}}

InitDelete ==
    /\ Started
    /\ mf \in [pc : {"names"}, doc : DeleteDocs, bag : DeleteNames, add_mode : {FALSE},
               post : {NoData}, out : {NoData}]
            \cup [pc : {"values"}, doc : DeleteDocs, bag : DeleteValues, add_mode : {FALSE},
                  post : {NoData}, out : {NoData}]

\* Mutant of delete_by_name: the name published deletes the date.
delete_by_name_dated ==
    /\ mf # NoData
    /\ mf.pc = "names"
    /\ mf' = [mf EXCEPT !.pc = "deleted_names",
                        !.post = IF \E i \in 1 .. Len(mf.bag) : mf.bag[i] = "published"
                                 THEN delete_props([mf.doc EXCEPT !.fm = dict_pop(@, "date")],
                                                   mf.bag)
                                 ELSE delete_props(mf.doc, mf.bag)]
    /\ UNCHANGED <<auth, now, req, resp, redeemed, repo, dreq, commits>>

\* delete_props(post, names)
delete_by_name ==
    /\ mf # NoData
    /\ mf.pc = "names"
    /\ mf' = [mf EXCEPT !.pc = "deleted_names", !.post = delete_props(mf.doc, mf.bag)]
    /\ UNCHANGED <<auth, now, req, resp, redeemed, repo, dreq, commits>>

\* delete_vals(post, props)
delete_by_value ==
    /\ mf # NoData
    /\ mf.pc = "values"
    /\ mf' = [mf EXCEPT !.pc = "deleted_values", !.post = delete_vals(mf.doc, mf.bag)]
    /\ UNCHANGED <<auth, now, req, resp, redeemed, repo, dreq, commits>>

NextDelete == delete_by_name \/ delete_by_value

SpecDelete == InitDelete /\ [][NextDelete]_vars

(***************************************************************************)
(* The documents micropub_create and micropub_update hand to put_post, as  *)
(* functions of the request body, the credential and the clock.            *)
(***************************************************************************)
\* The properties of the create requests: with or without a title, extra
\* keys, a body that may be blank, and a published value.
NameProps == {<<>>, << <<"name", one("Hello World")>> >>, << <<"name", one("!")>> >>}

ExtraProps ==
    {<<>>,
     << <<"in-reply-to", one("u")>> >>,
     << <<"like-of", one("u")>> >>,
     << <<"photo", one("p")>> >>,
     << <<"like-of", one("u")>>, <<"in-reply-to", one("u")>> >>,
     << <<"photo", one("p")>>, <<"like-of", one("u")>> >>}

ContentProps ==
    {<<>>, << <<"content", one([str |-> <<"hi">>])>> >>, << <<"content", one([str |-> <<" ">>])>> >>}

PublishedProps == {<<>>} \cup {<< <<"published", one(s)>> >> : s \in IsoStrings}

\* The JSON bodies: without mp-slug, with the slug foo, with an empty slug.
MakeBodies ==
    LET plain == {[type |-> <<"h-entry">>, properties |-> n \o e \o c \o p] :
                    n \in NameProps, e \in ExtraProps, c \in ContentProps,
                    p \in PublishedProps}
    IN  plain \cup {b @@ ("mp-slug" :> s) : b \in plain, s \in {"foo", ""}}

\* request.scope["bearer_data"]: none for a session, the token's item for a
\* bearer token.
BearerData ==
    {NoData, [token |-> <<"B", 0>>, client_id |-> "c1", scopes |-> <<"create">>, host |-> "h1"]}

\* The edits of the update requests: published and updated replaced by each
\* timestamp, updated deleted by name, published deleted by name, a tag
\* added and the value of updated supplied, and nothing.
EditBodies ==
    {[replace |-> << <<k, one(s)>> >>] : k \in {"published", "updated"}, s \in IsoStrings}
        \cup {[delete |-> [list |-> <<n>>]] : n \in {"updated", "published"}}
        \cup {[add |-> << <<"category", one("z")>> >>,
               replace |-> << <<"updated", one("2020-01-01T12:00:00+02:00")>> >>,
               delete |-> [list |-> <<"updated">>]],
              [replace |-> <<>>]}

InitWrite ==
    /\ Started
    /\ mf \in [pc : {"create"}, data : MakeBodies, bearer_data : BearerData,
               at : DocTimePoints, made : {NoData}]
            \cup [pc : {"update"}, data : EditBodies, doc : {OldPost, TaggedPost},
                  at : DocTimePoints, made : {NoData}]

\* micropub_create up to its put_post, the clock showing mf.at.
make ==
    /\ mf # NoData
    /\ mf.pc = "create"
    /\ mf' = [mf EXCEPT !.pc = "created",
                        !.made = created_post(mf.data, mf.bearer_data, mf.at)]
    /\ UNCHANGED <<auth, now, req, resp, redeemed, repo, dreq, commits>>

\* micropub_update between get_post and put_post, the clock showing mf.at.
edit ==
    /\ mf # NoData
    /\ mf.pc = "update"
    /\ mf' = [mf EXCEPT !.pc = "updated", !.made = updated_post(mf.doc, mf.data, mf.at)]
    /\ UNCHANGED <<auth, now, req, resp, redeemed, repo, dreq, commits>>

NextWrite == make \/ edit

SpecWrite == InitWrite /\ [][NextWrite]_vars

(***************************************************************************)
(* Vocabulary of the properties below.                                     *)
(***************************************************************************)
IsRedeem(r) == r.ep \in {"token", "authorize"}

\* The request carries grant_type=authorization_code, code, client_id and redirect_uri.
WellFormed(f) ==
    /\ {"grant_type", "code", "client_id", "redirect_uri"} \subseteq DOMAIN f
    /\ f.grant_type = "authorization_code"

IsCodeItem(d) == "redirect_uri" \in DOMAIN d

IsTokenItem(d) == "code_used" \in DOMAIN d

\* resp answers a well-formed redemption that was refused.
Refused == IsRedeem(resp) /\ WellFormed(resp.form) /\ resp.result # "ok"

\* A redemption in flight that passed every check of redeem_auth_code.
Accepted(p) == req[p].pc \in {"redeem_put", "token_put"}

Used(d) == dict_get(d, "used", FALSE)

Revoked(d) == dict_get(d, "revoked", FALSE)

SameBinding(form, host, d) ==
    form.client_id = d.client_id /\ form.redirect_uri = d.redirect_uri /\ host = d.host

\* The SHA-256 digest of the verifier supplied is the stored challenge.
VerifierMatches(form, d) ==
    /\ "code_verifier" \in DOMAIN form
    /\ sha256(form.code_verifier) = urlsafe_b64decode_padded(d.code_challenge)

Expired(d, t) == t - d.time > ExpiryMinutes

TokensOf(k) == {b \in issued(auth, "B") : auth[b].code_used = k}

PkceSatisfied(form, d) == d.code_challenge_method = "S256" => VerifierMatches(form, d)

(***************************************************************************)
(* C1.  Handled one after another, redemptions of one code succeed at most *)
(* once, on POST /token and POST /authorize alike: once a redemption has   *)
(* returned for a code, every later well-formed redemption of that code,   *)
(* the one with identical parameters included, is refused with             *)
(* invalid_grant.                                                          *)
(***************************************************************************)
C1_RedeemedOnce ==
    /\ \A k \in DOMAIN redeemed : redeemed[k] <= 1
    /\ (Refused /\ IsCodeItem(resp.data) /\ redeemed[resp.data.token] >= 1)
            => resp.result = "invalid_grant"

\* The second redemption, with the parameters that succeeded, was just refused.
C1_Witness ==
    /\ Refused /\ IsCodeItem(resp.data)
    /\ resp.result = "invalid_grant"
    /\ redeemed[resp.data.token] = 1 /\ Used(resp.data)
    /\ SameBinding(resp.form, resp.host, resp.data)
    /\ PkceSatisfied(resp.form, resp.data)
    /\ now - resp.data.time <= ExpiryMinutes

(***************************************************************************)
(* C2.  Under any interleaving of redemption requests for one code, at     *)
(* most one request succeeds and at most one bearer token is ever stored   *)
(* for the code.                                                           *)
(***************************************************************************)
C2_OneRedemptionPerCode ==
    \A k \in DOMAIN redeemed :
        /\ redeemed[k] <= 1
        /\ Cardinality(TokensOf(k)) <= 1

(***************************************************************************)
(* C4.  A code issued with method S256 is redeemed only with a             *)
(* code_verifier whose SHA-256 digest is the stored challenge: a request   *)
(* that passed the checks supplied such a verifier, and a request that was *)
(* refused although every other check passed did not.                      *)
(***************************************************************************)
C4_Pkce ==
    /\ \A p \in Procs :
            (Accepted(p) /\ req[p].data.code_challenge_method = "S256")
                => VerifierMatches(req[p].form, req[p].data)
    /\ (/\ Refused /\ IsCodeItem(resp.data)
        /\ resp.data.code_challenge_method = "S256"
        /\ SameBinding(resp.form, resp.host, resp.data)
        /\ ~Used(resp.data) /\ ~Expired(resp.data, now))
            => ~VerifierMatches(resp.form, resp.data)

\* A token was just issued for an S256 code, to the request with the right verifier.
C4_Witness ==
    /\ resp.ep = "token" /\ resp.result = "ok"
    /\ auth[resp.data.code_used].code_challenge_method = "S256"
    /\ VerifierMatches(resp.form, auth[resp.data.code_used])

(***************************************************************************)
(* C5.  Every refused redemption of a request that carries                 *)
(* grant_type=authorization_code, code, client_id and redirect_uri yields  *)
(* invalid_grant, whichever check failed.                                  *)
(***************************************************************************)
C5_OnlyInvalidGrant == Refused => resp.result = "invalid_grant"

(***************************************************************************)
(* C6.  A code older than 5 minutes is refused with invalid_grant even     *)
(* when every other check passes, and a code of at most 5 minutes, 5       *)
(* minutes exactly included, is not refused for its age: no request passes *)
(* the checks with an older code, and no request whose other checks all    *)
(* pass is refused for a code that is not older.                           *)
(***************************************************************************)
C6_Expiry ==
    /\ \A p \in Procs :
            Accepted(p) => req[p].at - req[p].data.time <= ExpiryMinutes
    /\ (Refused /\ IsCodeItem(resp.data) /\ Expired(resp.data, now))
            => resp.result = "invalid_grant"
    /\ (/\ Refused /\ IsCodeItem(resp.data)
        /\ SameBinding(resp.form, resp.host, resp.data)
        /\ ~Used(resp.data)
        /\ PkceSatisfied(resp.form, resp.data))
            => Expired(resp.data, now)

\* A redemption that only the age of the code speaks against was just
\* refused, one minute past the limit.
C6_Witness ==
    /\ Refused /\ IsCodeItem(resp.data)
    /\ resp.result = "invalid_grant"
    /\ now - resp.data.time = ExpiryMinutes + 1
    /\ SameBinding(resp.form, resp.host, resp.data)
    /\ ~Used(resp.data)
    /\ PkceSatisfied(resp.form, resp.data)

(***************************************************************************)
(* C7.  A redemption passes only with the client_id and the redirect_uri   *)
(* stored with the code and on the host recorded at issuance; a difference *)
(* in any of the three gets invalid_grant and leaves the code item as it   *)
(* was read, unused if it was unused.                                      *)
(***************************************************************************)
C7_Binding ==
    /\ \A p \in Procs :
            Accepted(p) => SameBinding(req[p].form, req[p].host, req[p].data)
    /\ (/\ Refused /\ IsCodeItem(resp.data)
        /\ ~SameBinding(resp.form, resp.host, resp.data))
            => /\ resp.result = "invalid_grant"
               /\ get_item(auth, resp.data.token) = resp.data

\* A request from another host, right in everything else, was just refused
\* and the code is still unused.
C7_Witness ==
    /\ Refused /\ IsCodeItem(resp.data)
    /\ resp.form.client_id = resp.data.client_id
    /\ resp.form.redirect_uri = resp.data.redirect_uri
    /\ resp.host # resp.data.host
    /\ PkceSatisfied(resp.form, resp.data)
    /\ ~Expired(resp.data, now)
    /\ ~Used(get_item(auth, resp.data.token))

(***************************************************************************)
(* C8.  Every stored bearer token names, in code_used, a code item that is *)
(* stored and marked used, and carries that code's host, client_id and     *)
(* scopes.                                                                 *)
(***************************************************************************)
C8_TokenMatchesCode ==
    \A b \in issued(auth, "B") :
        LET c == get_item(auth, auth[b].code_used)
        IN  /\ c # ItemNotFound
            /\ IsCodeItem(c)
            /\ Used(c)
            /\ auth[b].host = c.host
            /\ auth[b].client_id = c.client_id
            /\ auth[b].scopes = c.scopes

\* A token is stored for a code that was granted some scopes but not all.
C8_Witness ==
    \E b \in issued(auth, "B") :
        /\ IsTokenItem(auth[b])
        /\ auth[b].scopes # <<>>
        /\ auth[b].scopes # ALL_SCOPES
        /\ Used(auth[auth[b].code_used])

(***************************************************************************)
(* C9.  Bearer authentication succeeds exactly when the token is stored    *)
(* under the token namespace, is not revoked and was issued on the host of *)
(* the request; every other case is answered 401 and grants no scope.  On  *)
(* success the request is granted the scopes stored with the token, after  *)
(* the markers "auth" and "via_bearer", and nothing else.                  *)
(***************************************************************************)
C9_BearerAuth ==
    resp.ep = "bearer" =>
        LET d == get_item(auth, db_key("B", resp.form.token))
            good == d # ItemNotFound /\ ~Revoked(d) /\ d.host = resp.host
        IN  IF good
            THEN /\ resp.result = "ok"
                 /\ resp.scopes = <<"auth", "via_bearer">> \o d.scopes
            ELSE /\ resp.result = "401"
                 /\ resp.scopes = <<>>

\* A stored, unrevoked token was just presented on a host other than its
\* own and was answered 401.
C9_Witness ==
    /\ resp.ep = "bearer"
    /\ resp.result = "401"
    /\ resp.data # ItemNotFound
    /\ ~Revoked(resp.data)
    /\ resp.data.host # resp.host

(***************************************************************************)
(* C10.  Revocation is permanent: a token item marked revoked stays stored *)
(* and marked revoked through every step, concurrent revocations of the    *)
(* same token included, and while it is marked bearer authentication with  *)
(* that token fails on every host.                                         *)
(***************************************************************************)
C10_RevokedForever ==
    /\ [][\A b \in issued(auth, "B") :
                Revoked(auth[b]) => Revoked(get_item(auth', b))]_vars
    /\ [](\A b \in issued(auth, "B"), h \in Hosts :
                Revoked(auth[b]) => authenticate_bearer(auth, h, b[2]).status = "401")

\* The token is revoked while a second revocation of it has its put_item
\* still ahead.
C10_Witness ==
    \E b \in issued(auth, "B"), p \in Procs :
        /\ Revoked(auth[b])
        /\ req[p].pc = "revoke_put"
        /\ req[p].data.token = b

(***************************************************************************)
(* C3.  Of two micropub updates of one document that interleave, the one   *)
(* that read the document before the other's write was committed is        *)
(* rejected with VersionConflict and leaves the branch as the other writer *)
(* left it: an update whose path received a commit between its get_post    *)
(* and its put_post ends with VersionConflict and changes nothing.         *)
(***************************************************************************)
C3_StaleReadRejected ==
    [][\A p \in Procs :
            (/\ dreq[p].pc = "update_put" /\ dreq'[p].pc = "done"
             /\ commits_of(dreq[p].path) # dreq[p].seen)
                => /\ dreq'[p].result = "VersionConflict"
                   /\ repo' = repo]_vars

(***************************************************************************)
(* C3, amended.  The version is the hash of the raw bytes, so an update is *)
(* rejected exactly when the bytes stored differ from the bytes it read:   *)
(* put_post on a path that is gone or whose bytes changed since get_post   *)
(* ends with VersionConflict and leaves the branch as it is, and put_post  *)
(* on a path that holds the bytes read succeeds and stores the request's   *)
(* post over exactly those bytes.  Commits in between that leave or        *)
(* restore the bytes read are not noticed, and no content is lost to them. *)
(***************************************************************************)
C3_ChangedBytesRejected ==
    [][\A p \in Procs :
            (dreq[p].pc = "update_put" /\ dreq'[p].pc = "done")
                => IF github_get(repo, dreq[p].path) = NotFound
                      \/ git_blob_sha(github_get(repo, dreq[p].path)) # dreq[p].sha
                   THEN /\ dreq'[p].result = "VersionConflict"
                        /\ repo' = repo
                   ELSE /\ dreq'[p].result = "204"
                        /\ repo' = dict_set(repo, dreq[p].path, raw_text(dreq[p].post))]_vars

\* Two updates of one path have ended, one stored and one rejected, and the
\* path got a commit after the rejected one had read it.
C3_Witness ==
    \E p, q \in Procs :
        /\ dreq[p].pc = "done" /\ dreq[p].result = "VersionConflict"
        /\ dreq[q].pc = "done" /\ dreq[q].result = "204"
        /\ dreq[p].path = dreq[q].path
        /\ dreq[p].path \in DOMAIN repo

(***************************************************************************)
(* C11.  No step removes an item of the table.  A revoke request for a     *)
(* token that is not stored, or made on a host other than the token's,     *)
(* leaves the whole table as it is; a revoke that applies changes the      *)
(* revoked field of that one token item and nothing else; and a revoke of  *)
(* a token that is already revoked leaves the table as it is.              *)
(***************************************************************************)
C11_RevokeFrame ==
    [][/\ DOMAIN auth \subseteq DOMAIN auth'
       /\ (resp' # resp /\ resp'.ep = "revoke") =>
            LET k == db_key("B", resp'.form.token)
                d == get_item(auth, k)
            IN  IF d = ItemNotFound THEN auth' = auth
                ELSE IF d.host # resp'.host \/ Revoked(d) THEN auth' = auth
                ELSE auth' = [auth EXCEPT ![k] = dict_set(d, "revoked", TRUE)]]_vars

\* A revoke on the token's own host was just answered: the token is marked
\* revoked and still carries its scopes, and its code is stored as before.
C11_Witness ==
    /\ resp.ep = "revoke"
    /\ resp.data # ItemNotFound
    /\ resp.data.host = resp.host
    /\ Revoked(get_item(auth, db_key("B", resp.form.token)))
    /\ auth[db_key("B", resp.form.token)].scopes # <<>>
    /\ Used(get_item(auth, resp.data.code_used))

\* The action is among the scopes.
Granted(scopes, action) == \E i \in 1 .. Len(scopes) : scopes[i] = action

Writing(r) == r.pc \in {"create_put", "update_put", "delete_put"}

(***************************************************************************)
(* C12.  A request authenticated by a bearer token reaches the contents    *)
(* API, and changes the branch, only for an action among the scopes of its *)
(* token: create for a create, update for an update, delete for a delete.  *)
(* A request whose action is not among its scopes ends with 403            *)
(* insufficient_scope without having called the contents API.  The scopes  *)
(* a request was granted are those stored with its token, and the scopes   *)
(* stored with a token never change.                                       *)
(***************************************************************************)
C12_ScopeGate ==
    /\ [](\A p \in Procs :
            LET r == dreq[p]
            IN  /\ (Writing(r) \/ r.calls # <<>>) =>
                        /\ Granted(r.cred.scopes, r.action)
                        /\ r.pc = "create_put" => r.action = "create"
                        /\ r.pc = "update_put" => r.action = "update"
                        /\ r.pc = "delete_put" => r.action = "delete"
                /\ (r.pc = "done" /\ r.result # "unauthorized"
                        /\ ~Granted(r.cred.scopes, r.action)) =>
                        r.result = "insufficient_scope" /\ r.calls = <<>>
                /\ (r.cred # NoData /\ r.cred.bearer_data # NoData) =>
                        r.cred.scopes = <<"auth", "via_bearer">>
                                            \o get_item(auth, r.cred.bearer_data.token).scopes)
    /\ [][/\ \A b \in issued(auth, "B") : get_item(auth', b).scopes = auth[b].scopes
          /\ repo' # repo =>
                \E p \in Procs : Writing(dreq[p]) /\ dreq'[p].pc = "done"
                                    /\ Granted(dreq[p].cred.scopes, dreq[p].action)]_vars

\* A token granted update but not delete was presented with a delete
\* request, which ended with 403.
C12_Witness ==
    \E p \in Procs :
        /\ dreq[p].pc = "done"
        /\ dreq[p].action = "delete"
        /\ dreq[p].result = "insufficient_scope"
        /\ dreq[p].cred.bearer_data # NoData
        /\ Granted(dreq[p].cred.scopes, "update")

AllowedBy(r, scope) == r.pc = "allow" /\ Granted(r.data.scopes, scope)

(***************************************************************************)
(* C13.  A code is added to the credential store only by a POST /allow     *)
(* whose request was authenticated by the session (via_cookie); a POST     *)
(* /allow that is unauthenticated or authenticated by a bearer token,      *)
(* whatever its scopes, is answered with the redirect to login and leaves  *)
(* the store as it was; and a token added to the store has the scopes of   *)
(* a code that was stored before it.                                       *)
(***************************************************************************)
C13_CodesBySession ==
    [][/\ \A k \in issued(auth', "C") \ issued(auth, "C") :
            \E p \in Procs : AllowedBy(req[p], "via_cookie") /\ req'[p].pc = "responded"
       /\ \A b \in issued(auth', "B") \ issued(auth, "B") :
            /\ auth'[b].code_used \in issued(auth, "C")
            /\ auth'[b].scopes = auth[auth'[b].code_used].scopes
       /\ \A p \in Procs :
            (req[p].pc = "allow" /\ ~Granted(req[p].data.scopes, "via_cookie")
                    /\ req'[p] # req[p]) =>
                /\ auth' = auth
                /\ req'[p].pc = "responded"
                /\ req'[p].result = "login"]_vars

\* A same-origin POST /allow carrying a valid bearer token was sent to login.
C13_Witness ==
    \E p \in Procs :
        /\ req[p].pc = "responded"
        /\ req[p].ep = "allow"
        /\ req[p].result = "login"
        /\ req[p].data.site = "same-origin"
        /\ Granted(req[p].data.scopes, "via_bearer")
        /\ Granted(req[p].data.scopes, "create")

(***************************************************************************)
(* C14.  Every stored authorization code has a client_id and a             *)
(* redirect_uri that are absolute URLs of the same scheme and the same     *)
(* authority.                                                              *)
(***************************************************************************)
C14_CodesSameOrigin ==
    \A k \in issued(auth, "C") : same_origin(auth[k].client_id, auth[k].redirect_uri)

\* Slot p makes its contents API call in this step.
Calls(p, pc) == dreq[p].pc = pc /\ dreq'[p].pc = "done"

(***************************************************************************)
(* C15.  The put of a micropub create carries no expected version.  When   *)
(* a document exists at the derived path the create fails and the branch   *)
(* is as it was; otherwise the document is stored at the path and every    *)
(* other document is as it was.                                            *)
(***************************************************************************)
C15_CreateNeverOverwrites ==
    [][\A p \in Procs : Calls(p, "create_put") =>
            LET path == dreq[p].path
            IN  /\ dreq[p].sha = NoSha
                /\ \A other \in DOMAIN repo :
                        other \in DOMAIN repo' /\ repo'[other] = repo[other]
                /\ IF path \in DOMAIN repo
                   THEN /\ repo' = repo
                        /\ dreq'[p].result = "AlreadyExists"
                   ELSE /\ DOMAIN repo' = DOMAIN repo \cup {path}
                        /\ repo'[path] = raw_text(dreq[p].post)
                        /\ dreq'[p].result = "201"]_vars

\* Two creates derived the same path: one was stored, the other failed.
C15_Witness ==
    \E p, q \in Procs :
        /\ dreq[p].pc = "done" /\ dreq[p].action = "create" /\ dreq[p].result = "201"
        /\ dreq[q].pc = "done" /\ dreq[q].action = "create"
        /\ dreq[q].result = "AlreadyExists"
        /\ dreq[q].path = dreq[p].path
        /\ dreq[q].calls = <<"PUT">>

OneReadOneWrite(calls) ==
    calls \in {<<>>, <<"GET">>, <<"GET", "PUT">>, <<"GET", "DELETE">>}

(***************************************************************************)
(* C17.  An update or delete request calls the contents API at most twice: *)
(* one read, then at most one conditional write or delete.  A request      *)
(* about to write has made the read and nothing else.  A request that      *)
(* ended wrote at most once, also when the write was rejected with         *)
(* VersionConflict; it ended after the read alone when the document was    *)
(* not found or the edit was invalid; and once ended it calls nothing      *)
(* more.  The branch changes only by the one write of a request.           *)
(***************************************************************************)
C17_OneReadOneWrite ==
    /\ [](\A p \in Procs :
            LET r == dreq[p]
            IN  r.action \in {"update", "delete"} =>
                    /\ OneReadOneWrite(r.calls)
                    /\ Writing(r) => r.calls = <<"GET">>
                    /\ (r.pc = "done" /\ r.result \in {"204", "VersionConflict"}) =>
                            Len(r.calls) = 2
                    /\ (r.pc = "done" /\ r.result \in {"invalid_request", "KeyError", "ValueError"}) =>
                            Len(r.calls) <= 1
                    /\ (r.pc = "done" /\ r.action = "update" /\ r.result = "NotFound") =>
                            r.calls = <<"GET">>)
    /\ [][\A p \in Procs :
            /\ (dreq[p].pc = "done" /\ dreq'[p] # dreq[p]) => dreq'[p] = DIdle
            /\ (Writing(dreq[p]) /\ dreq'[p] # dreq[p]) =>
                    dreq'[p].pc = "done" /\ Len(dreq'[p].calls) = 2
            /\ (dreq[p].pc = "idle" /\ dreq'[p].pc = "done" /\ dreq'[p].calls = <<"GET">>) =>
                    repo' = repo]_vars
    /\ [][repo' # repo => \E p \in Procs : Writing(dreq[p]) /\ dreq'[p].pc = "done"]_vars

\* An update rejected with VersionConflict ended after its one write, and a
\* request whose edit was invalid ended after its read.
C17_Witness ==
    \E p, q \in Procs :
        /\ dreq[p].pc = "done" /\ dreq[p].action = "update"
        /\ dreq[p].result = "VersionConflict"
        /\ dreq[p].calls = <<"GET", "PUT">>
        /\ dreq[q].pc = "done" /\ dreq[q].action = "update"
        /\ dreq[q].result \in {"invalid_request", "KeyError"}
        /\ dreq[q].calls = <<"GET">>

\* The code k is used, no token was minted for it and no request is about
\* to mint one.
Orphaned(k) ==
    /\ k \in issued(auth, "C")
    /\ Used(auth[k])
    /\ \A b \in issued(auth, "B") : auth[b].code_used # k
    /\ \A p \in Procs : req[p].pc = "token_put" => req[p].data.token # k

(***************************************************************************)
(* C18.  When a token request is abandoned after the write that marks the  *)
(* code used and before the write of the token, the code is used and has   *)
(* no token.  From then on it stays so: every redemption of it is answered *)
(* with invalid_grant and leaves the table as it is, and no step stores a  *)
(* token for it.                                                           *)
(***************************************************************************)
C18_AbandonedCodeStaysUsed ==
    [][/\ (resp' # resp /\ resp'.result = "abandoned") =>
            /\ auth' = auth
            /\ Used(auth[resp'.data.token])
            /\ \A b \in issued(auth, "B") : auth[b].code_used # resp'.data.token
       /\ \A k \in issued(auth, "C") : Orphaned(k) =>
            /\ Used(get_item(auth', k))
            /\ \A b \in issued(auth', "B") : auth'[b].code_used # k
            /\ \A p \in Procs :
                    req'[p].pc \in {"redeem_put", "token_put"} => req'[p].data.token # k
            /\ (resp' # resp /\ IsRedeem(resp') /\ WellFormed(resp'.form)
                    /\ db_key("C", resp'.form.code) = k) =>
                    resp'.result = "invalid_grant" /\ auth' = auth]_vars

\* A well-formed redemption of a code whose token request was abandoned
\* has been answered with invalid_grant on the code's host.
C18_Witness ==
    /\ IsRedeem(resp)
    /\ WellFormed(resp.form)
    /\ resp.result = "invalid_grant"
    /\ Orphaned(db_key("C", resp.form.code))
    /\ SameBinding(resp.form, resp.host, auth[db_key("C", resp.form.code)])
    /\ ~Expired(auth[db_key("C", resp.form.code)], now)

\* The bag as a dict: for a name given twice the later value.
BagMap(props) ==
    [k \in {props[i][1] : i \in 1 .. Len(props)} |->
        props[CHOOSE i \in 1 .. Len(props) :
                props[i][1] = k /\ \A j \in (i + 1) .. Len(props) : props[j][1] # k][2]]

Recognized == {"name", "summary", "published", "updated", "category", "content", "url"}

\* A bag of one value per recognized key was decoded in replace mode onto
\* the empty document, and the document was encoded.
RoundTripped ==
    /\ mf # NoData
    /\ mf.pc = "json"
    /\ mf.doc = EmptyPost
    /\ ~mf.add_mode
    /\ mf.bag \in FullBags

\* The text of a content value.
TextOf(item) == IF "str" \in DOMAIN item THEN item.str ELSE content_of_dict(item.dict).str

\* The key with "_" written as "-".
Hyphenated(k) == IF k = "like_of" THEN "like-of" ELSE k

(***************************************************************************)
(* C19.  Encoding the document decoded from a bag of one value per         *)
(* recognized key returns a bag whose properties are equal to the input's, *)
(* key by key and value by value.                                          *)
(***************************************************************************)
C19_RoundTrip ==
    RoundTripped => mf.out.properties = BagMap(mf.bag)

(***************************************************************************)
(* C19, amended.  The returned bag has the input's name, summary and       *)
(* category unchanged, and the values of each extra key unchanged under    *)
(* the key with "_" written as "-".  published and updated come back as    *)
(* the same instant with the same UTC offset, to the second.  content      *)
(* comes back as the one object {"markdown": text} with the input's text,  *)
(* and not at all when the text is blank.  The returned bag has no other   *)
(* keys.                                                                   *)
(***************************************************************************)
C19_RoundTripNormalised ==
    RoundTripped =>
        LET P == mf.out.properties
            B == BagMap(mf.bag)
            text == TextOf(B["content"].list[1])
            extras == DOMAIN B \ Recognized
        IN  /\ \A k \in {"name", "summary", "category"} : k \in DOMAIN P /\ P[k] = B[k]
            /\ \A k \in {"published", "updated"} :
                    /\ k \in DOMAIN P
                    /\ Len(P[k].list) = 1
                    /\ fromisoformat(P[k].list[1])
                            = [fromisoformat(B[k].list[1]) EXCEPT !.micro = 0]
            /\ \A k \in extras : Hyphenated(k) \in DOMAIN P /\ P[Hyphenated(k)] = B[k]
            /\ IF is_blank(text) THEN "content" \notin DOMAIN P
               ELSE /\ "content" \in DOMAIN P
                    /\ P["content"] = [list |-> <<[dict |-> [markdown |-> text]]>>]
            /\ DOMAIN P \ {"content"} =
                    {"name", "summary", "category", "published", "updated"}
                        \cup {Hyphenated(k) : k \in extras}

\* A bag with a "Z" timestamp, a content string and a hyphenated extra key
\* went through, and the timestamp came back with "+00:00".
C19_Witness ==
    /\ RoundTripped
    /\ BagMap(mf.bag)["published"] = one("2020-01-01T10:00:00Z")
    /\ BagMap(mf.bag)["content"] = one([str |-> <<"hello">>])
    /\ "in-reply-to" \in DOMAIN mf.out.properties
    /\ mf.out.properties["published"] = one("2020-01-01T10:00:00+00:00")

\* A bag of one property was decoded onto a document.
DecodedOne ==
    /\ mf # NoData
    /\ mf.pc = "post"
    /\ Len(mf.bag) = 1

\* The tag list of a front matter, empty when it has none.
TagsOf(fm) ==
    IF "taxonomies" \in DOMAIN fm /\ "tag" \in DOMAIN fm["taxonomies"]
    THEN fm["taxonomies"]["tag"] ELSE <<>>

\* The list stored for an extra key, empty when there is none.
ExtraOf(fm, key) ==
    IF "extra" \in DOMAIN fm /\ key \in DOMAIN fm["extra"] THEN fm["extra"][key] ELSE <<>>

\* The name an extra key is stored under.
StoredKey(k) ==
    CASE k = "in-reply-to" -> "in_reply_to"
      [] k = "like-of" -> "like_of"
      [] OTHER -> k

\* The front-matter field of a single-valued property.
FieldOf(k) ==
    CASE k = "name" -> "title"
      [] k = "summary" -> "description"
      [] k = "published" -> "date"
      [] k = "updated" -> "updated"

\* The value a single-valued property stores.
StoredValue(k, x) == IF k \in {"published", "updated"} THEN fromisoformat(x) ELSE x

(***************************************************************************)
(* C20.  Decoding one property: for category and for every extra key, add  *)
(* mode appends the incoming values after the existing ones in order and   *)
(* replace mode stores exactly the incoming list; for name, summary,       *)
(* published and updated both modes store the incoming value; a property   *)
(* whose value list is empty or null leaves the document as it was.        *)
(***************************************************************************)
C20_AddAppendsReplaceOverwrites ==
    DecodedOne =>
        LET k == mf.bag[1][1]
            v == mf.bag[1][2]
            old == mf.doc.fm
        IN  IF v = Null THEN mf.post = mf.doc
            ELSE IF v.list = <<>> THEN mf.post = mf.doc
            ELSE /\ ~Raised(mf.post)
                 /\ mf.post.content_text = mf.doc.content_text
                 /\ IF k = "category"
                    THEN /\ TagsOf(mf.post.fm)
                                = IF mf.add_mode THEN TagsOf(old) \o v.list ELSE v.list
                         /\ \A f \in DOMAIN old \ {"taxonomies"} :
                                f \in DOMAIN mf.post.fm /\ mf.post.fm[f] = old[f]
                    ELSE IF k \in {"name", "summary", "published", "updated"}
                    THEN /\ FieldOf(k) \in DOMAIN mf.post.fm
                         /\ mf.post.fm[FieldOf(k)] = StoredValue(k, v.list[1])
                         /\ \A f \in DOMAIN old \ {FieldOf(k)} :
                                f \in DOMAIN mf.post.fm /\ mf.post.fm[f] = old[f]
                    ELSE /\ ExtraOf(mf.post.fm, StoredKey(k))
                                = IF mf.add_mode THEN ExtraOf(old, StoredKey(k)) \o v.list
                                  ELSE v.list
                         /\ \A f \in DOMAIN old \ {"extra"} :
                                f \in DOMAIN mf.post.fm /\ mf.post.fm[f] = old[f]

\* category ["y"] was decoded in add mode onto a document tagged ["x"], and
\* the document is tagged ["x", "y"].
C20_Witness ==
    /\ DecodedOne
    /\ mf.add_mode
    /\ mf.bag = << <<"category", one("y")>> >>
    /\ TagsOf(mf.doc.fm) = <<"x">>
    /\ TagsOf(mf.post.fm) = <<"x", "y">>

\* delete_props has run with these names and no others.
DeletedNames(names) ==
    /\ mf # NoData
    /\ mf.pc = "deleted_names"
    /\ {mf.bag[i] : i \in 1 .. Len(mf.bag)} = names

(***************************************************************************)
(* C21.  Deleting by name with the name published or the name content is   *)
(* a no-op: the date field and the body text after the call are those      *)
(* before it, and no other field changes.                                  *)
(***************************************************************************)
C21_PublishedContentNoOp ==
    \A names \in (SUBSET {"published", "content"}) \ {{}} :
        DeletedNames(names) => mf.post = mf.doc

(***************************************************************************)
(* C21, amended.  Deleting by name with the name published is a no-op:     *)
(* the document after the call is the document before it.  With the name   *)
(* content the body text becomes the empty string and no field of the      *)
(* front matter changes.                                                   *)
(***************************************************************************)
C21_PublishedNoOpContentEmptied ==
    \A names \in (SUBSET {"published", "content"}) \ {{}} :
        DeletedNames(names) =>
            /\ mf.post.fm = mf.doc.fm
            /\ mf.post.content_text
                    = IF "content" \in names THEN <<>> ELSE mf.doc.content_text

\* published and content were deleted by name from a document with a date
\* and a body: the date is there, the body is empty.
C21_Witness ==
    /\ DeletedNames({"published", "content"})
    /\ mf.doc.content_text = <<"old">>
    /\ "date" \in DOMAIN mf.doc.fm
    /\ "date" \in DOMAIN mf.post.fm
    /\ mf.post.content_text = <<>>

\* d without the key name, whether or not it has it.
Less(d, name) == [k \in DOMAIN d \ {name} |-> d[k]]

\* The front matter without the field at container[key], and without the
\* container when nothing else is in it.
Pruned(fm, container, key) ==
    IF container \notin DOMAIN fm THEN fm
    ELSE IF DOMAIN fm[container] \subseteq {key} THEN Less(fm, container)
    ELSE [fm EXCEPT ![container] = Less(@, key)]

(***************************************************************************)
(* C22.  Deleting one name clears the field it names and removes the       *)
(* container of the field when nothing is left in it: name clears title,   *)
(* updated clears updated, category removes the tag list and with it an    *)
(* otherwise empty taxonomies, an extra key is removed and with it an      *)
(* otherwise empty extra.  Nothing else changes.                           *)
(***************************************************************************)
C22_DeleteByNamePrunes ==
    \A n \in PropertyNames \ {"published", "content"} :
        DeletedNames({n}) =>
            /\ mf.post.content_text = mf.doc.content_text
            /\ mf.post.fm =
                CASE n = "name" -> Less(mf.doc.fm, "title")
                  [] n = "updated" -> Less(mf.doc.fm, "updated")
                  [] n = "category" -> Pruned(mf.doc.fm, "taxonomies", "tag")
                  [] OTHER -> Pruned(mf.doc.fm, "extra", StoredKey(n))

\* delete_vals has run with the one property k and a list of values.
DeletedValues(k) ==
    /\ mf # NoData
    /\ mf.pc = "deleted_values"
    /\ Len(mf.bag) = 1
    /\ mf.bag[1][1] = k
    /\ mf.bag[1][2] # Null

\* The items of the list that are none of the values, in their order.
Remaining(items, values) ==
    SelectSeq(items, LAMBDA t : t \notin {values[i] : i \in 1 .. Len(values)})

(***************************************************************************)
(* C23.  Deleting values of category removes from the tag list exactly     *)
(* the listed values and keeps the other tags in their order; when no tag  *)
(* is left the tag field is removed, and taxonomies with it when nothing   *)
(* else is in it.  Values listed for name, published, updated or content   *)
(* change nothing.                                                         *)
(***************************************************************************)
C23_DeleteCategoryValues ==
    /\ \A k \in {"name", "published", "updated", "content"} :
            DeletedValues(k) => mf.post = mf.doc
    /\ DeletedValues("category") =>
            /\ ~Raised(mf.post)
            /\ mf.post.content_text = mf.doc.content_text
            /\ mf.post.fm =
                IF TagsOf(mf.doc.fm) = <<>> THEN mf.doc.fm
                ELSE IF Remaining(TagsOf(mf.doc.fm), mf.bag[1][2].list) = <<>>
                THEN Pruned(mf.doc.fm, "taxonomies", "tag")
                ELSE [mf.doc.fm EXCEPT !["taxonomies"]["tag"] =
                            Remaining(TagsOf(mf.doc.fm), mf.bag[1][2].list)]

\* The value x was deleted from the tags x, y: the tags are y.
C23_Witness ==
    /\ DeletedValues("category")
    /\ mf.bag[1][2] = one("x")
    /\ TagsOf(mf.doc.fm) = <<"x", "y">>
    /\ TagsOf(mf.post.fm) = <<"y">>

(***************************************************************************)
(* C24.  Deleting values of an extra key completes normally and removes    *)
(* from that key's list exactly the listed values; when the list becomes   *)
(* empty the key itself, under the name it is stored with, is removed      *)
(* from the document.  Nothing else changes.                               *)
(***************************************************************************)
C24_DeleteExtraValues ==
    \A k \in {"photo", "in-reply-to"} :
        DeletedValues(k) =>
            /\ ~Raised(mf.post)
            /\ mf.post.content_text = mf.doc.content_text
            /\ \A f \in DOMAIN mf.doc.fm \ {"extra"} :
                    f \in DOMAIN mf.post.fm /\ mf.post.fm[f] = mf.doc.fm[f]
            /\ ExtraOf(mf.doc.fm, StoredKey(k)) # <<>> =>
                    LET rest == Remaining(ExtraOf(mf.doc.fm, StoredKey(k)), mf.bag[1][2].list)
                    IN  /\ ExtraOf(mf.post.fm, StoredKey(k)) = rest
                        /\ rest = <<>> =>
                                \/ "extra" \notin DOMAIN mf.post.fm
                                \/ StoredKey(k) \notin DOMAIN mf.post.fm["extra"]
                        /\ \A e \in DOMAIN mf.doc.fm["extra"] \ {StoredKey(k)} :
                                ExtraOf(mf.post.fm, e) = mf.doc.fm["extra"][e]

\* micropub_create has made a document of the request's body.
Made ==
    /\ mf # NoData
    /\ mf.pc = "created"
    /\ ~Raised(mf.made)

\* The bag has the property k.
Has(props, k) == \E i \in 1 .. Len(props) : props[i][1] = k

\* The value of the property k of the bag, which has it once.
ValueOf(props, k) == props[CHOOSE i \in 1 .. Len(props) : props[i][1] = k][2].list[1]

\* The body the bag asks for is empty or white space.
BlankBody(props) == ~Has(props, "content") \/ is_blank(TextOf(ValueOf(props, "content")))

(***************************************************************************)
(* C25.  The category of a created post is the first that matches: a       *)
(* title gives articles whatever the extras are; else in-reply-to gives    *)
(* replies; else like-of gives likes; else photo with an empty or          *)
(* white-space body gives photos; else notes.                              *)
(***************************************************************************)
C25_CategoryByFirstMatch ==
    Made =>
        LET props == mf.data.properties
        IN  mf.made.path.name[1] =
                IF Has(props, "name") THEN "articles"
                ELSE IF Has(props, "in-reply-to") THEN "replies"
                ELSE IF Has(props, "like-of") THEN "likes"
                ELSE IF Has(props, "photo") /\ BlankBody(props) THEN "photos"
                ELSE "notes"

\* A photo with a body that is not blank was made a note.
C25_Witness ==
    /\ Made
    /\ Has(mf.data.properties, "photo")
    /\ ~Has(mf.data.properties, "like-of")
    /\ ~Has(mf.data.properties, "name")
    /\ ~BlankBody(mf.data.properties)
    /\ mf.made.path.name[1] = "notes"

\* The request names a slug of its own.
GivenSlug(data) == "mp-slug" \in DOMAIN data /\ data["mp-slug"] # ""

\* The slug of a title.
Slugified(title) == IF title = "Hello World" THEN "hello-world" ELSE ""

\* The instant of the document's date as YYYY-MM-DD-HH-MM-SS in UTC: that
\* of the published value, or the second the server's clock showed.
UtcStamp(props, at) ==
    IF Has(props, "published") THEN "2020-01-01-10-00-00"
    ELSE IF at = 0 THEN "2020-01-01-00-00-00"
    ELSE "2020-01-01-00-00-01"

\* The same instant as YYYY-MM-DD-HH-MM-SS in the UTC offset the published
\* value is written with.
OwnStamp(props, at) ==
    IF Has(props, "published") /\ ValueOf(props, "published") = "2020-01-01T12:00:00+02:00"
    THEN "2020-01-01-12-00-00"
    ELSE UtcStamp(props, at)

\* The document is stored under category/slug.
StoredAt(slug) ==
    /\ mf.made.path.prefix = path_prefix
    /\ mf.made.path.ext = ".md"
    /\ Len(mf.made.path.name) = 2
    /\ mf.made.path.name[2] = slug

UtcToSecond(dt) == dt.aware /\ dt.offset = 0 /\ dt.micro = 0

\* micropub_create or micropub_update has made the document it writes.
Written ==
    /\ mf # NoData
    /\ mf.pc \in {"created", "updated"}
    /\ ~Raised(mf.made)

\* The front matter that is written.
WrittenFm == IF mf.pc = "created" THEN mf.made.post.fm ELSE mf.made.fm

(***************************************************************************)
(* C27.  In every document written by create or update, date and updated,  *)
(* when present, are timestamps in UTC with second precision, whatever     *)
(* published or updated value the client supplied.                         *)
(***************************************************************************)
C27_DatesUtcToSecond ==
    Written =>
        \A f \in {"date", "updated"} \cap DOMAIN WrittenFm : UtcToSecond(WrittenFm[f])

\* The step answers a redemption with a failure.
FailedRedemption == resp' # resp /\ IsRedeem(resp') /\ resp'.result # "ok"

\* Some request would pass every check of the redemption of the item d at
\* the time t.
Redeemable(d, t) ==
    \E f \in RedeemForms :
        /\ WellFormed(f)
        /\ db_key("C", f.code) = d.token
        /\ redeem_check(d, f, d.host, t) = "ok"

(***************************************************************************)
(* C28.  A redemption that fails, for whatever reason, leaves the          *)
(* credential store as it was: no used flag is set and no token is stored. *)
(* A code that was good before a failed attempt is still redeemable after  *)
(* it.                                                                     *)
(***************************************************************************)
C28_FailedRedemptionWritesNothing ==
    [][FailedRedemption =>
            /\ auth' = auth
            /\ redeemed' = redeemed
            /\ req' = req
            /\ \A k \in issued(auth, "C") :
                    (~Used(auth[k]) /\ ~Expired(auth[k], now)) =>
                        /\ k \in issued(auth', "C")
                        /\ Redeemable(auth'[k], now')]_vars

\* A redemption with the wrong verifier was refused, and the code it named
\* is neither used nor expired.
C28_Witness ==
    /\ Refused
    /\ IsCodeItem(resp.data)
    /\ resp.result = "invalid_grant"
    /\ SameBinding(resp.form, resp.host, resp.data)
    /\ ~PkceSatisfied(resp.form, resp.data)
    /\ resp.data.token \in issued(auth, "C")
    /\ ~Used(auth[resp.data.token])
    /\ ~Expired(auth[resp.data.token], now)

\* micropub_update has made the document it writes.
Edited ==
    /\ mf # NoData
    /\ mf.pc = "updated"
    /\ ~Raised(mf.made)

\* The second t of the server's clock, in UTC.
UtcSecond(t) == [secs |-> t, micro |-> 0, aware |-> TRUE, offset |-> 0]

(***************************************************************************)
(* C29.  The document a successful update writes has an updated field set  *)
(* to the time of the request, assigned after the replace, add and delete  *)
(* steps: also when the request deletes updated by name or supplies an     *)
(* updated value of its own.                                               *)
(***************************************************************************)
C29_UpdateStampsLast ==
    Edited =>
        /\ "updated" \in DOMAIN mf.made.fm
        /\ mf.made.fm["updated"] = UtcSecond(mf.at)

\* A request that supplied an updated value and deleted updated by name
\* was made on a document with an updated field, and the document written
\* has the time of the request.
C29_Witness ==
    /\ Edited
    /\ "delete" \in DOMAIN mf.data
    /\ "replace" \in DOMAIN mf.data
    /\ Has(mf.data.replace, "updated")
    /\ mf.data.delete = [list |-> <<"updated">>]
    /\ "updated" \in DOMAIN mf.doc.fm
    /\ mf.at = 1
    /\ mf.made.fm["updated"] = UtcSecond(1)
    /\ mf.made.fm["updated"] # mf.doc.fm["updated"]

====
